---------------------------- MODULE Spec2Model ----------------------------
(***************************************************************************)
(* Model of the NamedObject document engine of trivago/go-kubernetes:      *)
(* Path classification, walk (the traversal primitive with match, mutate   *)
(* and not-found callbacks), the operations built on it (Get, Has, Set,    *)
(* Delete, Walk, the typed getters, FindAll and FindFirst, annotations and *)
(* labels), GeneratePatch, Hash, and the JQ-style and JSON-Pointer text    *)
(* forms of Path.                                                          *)
(*                                                                         *)
(* Five specifications: Spec makes calls on one document, PathSpec         *)
(* applies the functions of Path to strings, HashSpec hashes two           *)
(* documents, MemSpec builds Paths in storage and writes through them,     *)
(* CleanSpec removes the managed fields of an object.                      *)
(*                                                                         *)
(* Strings are sequences of one-character strings, so that a path segment  *)
(* can be classified by its first character as the code does.  A document  *)
(* node is a record [kind, v]: kind is the Go kind of the value ("map",    *)
(* "slice", "string", "float64", "bool") or "nil" for a nil interface.     *)
(***************************************************************************)
EXTENDS Integers, Sequences, FiniteSets, TLC

VARIABLES
    doc,        \* the NamedObject (root map) the calls act on
    nops,       \* number of calls made so far
    op,         \* name of the last call ("none" before the first)
    argPath,    \* path argument of the last call
    argValue,   \* value argument of the last call (Nil when it has none)
    argAll,     \* MatchAll argument of the last call
    argMatch,   \* MatchFunc argument of the last call: [fn, v], v the value it accepts
    before,     \* the document as it was before the last call
    retVal,     \* value returned by the last call
    retErr,     \* error returned by the last call
    retPath,    \* path returned by the last call (GeneratePatch, FindFirst)
    retPaths,   \* paths returned by the last call (FindAll)
    text,       \* the string given to the functions of Path
    fn,         \* the function of Path applied last ("none" before the first)
    textPath,   \* the Path returned by the parsing function applied last
    textNotation, \* the notation returned by GetArrayNotation
    jsonPath,   \* the string returned by ToJSONPath
    splitKey,   \* what SplitKey returned: [prefix, key, err], err its panic
    left,       \* a document given to Hash
    right,      \* another document given to Hash
    leftHash,   \* what Hash returned for left
    rightHash,  \* what Hash returned for right
    mem,        \* the backing arrays allocated so far, each a sequence of segments
    pathOf,     \* the slice header (array, len) of each Path variable of a caller
    held,       \* the segments each Path variable had when it was last assigned or written
    memOp,      \* the last statement of the caller ([fn |-> "none"] before the first)
    memOps      \* number of statements executed so far

\* the calls on a document and what they returned
docVars == <<doc, nops, op, argPath, argValue, argAll, argMatch, before, retVal, retErr,
            retPath, retPaths>>
\* the functions of Path and what they returned
pathVars == <<text, fn, textPath, textNotation, jsonPath, splitKey>>

\* the documents hashed and what Hash returned
hashVars == <<left, right, leftHash, rightHash>>

\* the storage of Paths and the Path variables of a caller
memVars == <<mem, pathOf, held, memOp, memOps>>

vars == <<docVars, pathVars, hashVars, memVars>>

---------------------------------------------------------------------------
(* Bounds of the model *)

\* longest path given to a call
MaxPathLen == 3
\* number of calls made on one document
MaxOps == 1
\* longest string given to a function of Path
MaxTextLen == 5

---------------------------------------------------------------------------
(* Value model: map[string]interface{}, []interface{}, scalars, nil *)

Nil == [kind |-> "nil", v |-> <<>>]
Str(s) == [kind |-> "string", v |-> s]
Num(n) == [kind |-> "float64", v |-> n]
Bool(b) == [kind |-> "bool", v |-> b]
Map(m) == [kind |-> "map", v |-> m]
Arr(a) == [kind |-> "slice", v |-> a]

EmptyMap == Map(<<>>)
IsScalar(x) == x.kind \in {"nil", "string", "float64", "bool"}

\* m[k] = x on a Go map
MapPut(m, k, x) == [y \in (DOMAIN m) \cup {k} |-> IF y = k THEN x ELSE m[y]]
\* delete(m, k) on a Go map
MapDel(m, k) == [y \in (DOMAIN m) \ {k} |-> m[y]]
\* s without its last element, whatever the index i
SeqDropLast(s, i) == SubSeq(s, 1, Len(s) - 1)

\* append(s[:i], s[i+1:]...) for a 0-based index i
SeqDel(s, i) == SubSeq(s, 1, i) \o SubSeq(s, i + 2, Len(s))

---------------------------------------------------------------------------
(* Path: array notation *)

ArrayNotationInvalid == -1
ArrayNotationIndex == 0
ArrayNotationTraversal == 1

Digit == {"0", "1", "2", "3", "4", "5", "6", "7", "8", "9"}
DigitVal(c) ==
    CASE c = "0" -> 0 [] c = "1" -> 1 [] c = "2" -> 2 [] c = "3" -> 3
      [] c = "4" -> 4 [] c = "5" -> 5 [] c = "6" -> 6 [] c = "7" -> 7
      [] c = "8" -> 8 [] c = "9" -> 9
DigitChar(n) ==
    CASE n = 0 -> "0" [] n = 1 -> "1" [] n = 2 -> "2" [] n = 3 -> "3"
      [] n = 4 -> "4" [] n = 5 -> "5" [] n = 6 -> "6" [] n = 7 -> "7"
      [] n = 8 -> "8" [] n = 9 -> "9"

\* The notation of a segment, decided by its first character alone.
GetArrayNotation(key) ==
    IF Len(key) = 0 THEN ArrayNotationInvalid
    ELSE IF key[1] = "-" THEN ArrayNotationTraversal
    ELSE IF key[1] \in Digit THEN ArrayNotationIndex
    ELSE ArrayNotationInvalid

\* Path.IsArray(idx) for a 0-based idx >= 0: <<isArray, notation>>
IsArray(p, idx) ==
    IF Len(p) = 0 \/ idx >= Len(p) THEN <<FALSE, ArrayNotationInvalid>>
    ELSE IF GetArrayNotation(p[idx + 1]) # ArrayNotationInvalid
        THEN <<TRUE, GetArrayNotation(p[idx + 1])>>
    ELSE IF Len(p) - idx < 2 THEN <<FALSE, ArrayNotationInvalid>>
    ELSE IF GetArrayNotation(p[idx + 2]) # ArrayNotationInvalid
        THEN <<TRUE, GetArrayNotation(p[idx + 2])>>
    ELSE <<FALSE, ArrayNotationInvalid>>

\* NewPath(p, key): a fresh path, p followed by key
NewPath(p, key) == Append(p, key)

---------------------------------------------------------------------------
(* Path: the JQ-style and the JSON-Pointer text forms *)

\* addElement of NewPathFromJQFormat: the path after the identifier
\* jqPath[lastSplitIdx:idx], ended by the character rn, has been parsed
addElementNoTraversal(jqPath, p, lastSplitIdx, idx, rn) ==
    IF idx > lastSplitIdx
    THEN Append(p, SubSeq(jqPath, lastSplitIdx + 1, idx))
    ELSE p

addElement(jqPath, p, lastSplitIdx, idx, rn) ==
    IF idx > lastSplitIdx
    THEN Append(p, SubSeq(jqPath, lastSplitIdx + 1, idx))
    ELSE IF rn = "]" THEN Append(p, <<"-">>)
    ELSE p

\* the loop of NewPathFromJQFormat from the 0-based position idx on, and
\* the last addElement after it
RECURSIVE jqLoop(_, _, _, _, _)
jqLoop(jqPath, idx, p, lastSplitIdx, quoted) ==
    IF idx >= Len(jqPath)
    THEN addElement(jqPath, p, lastSplitIdx, Len(jqPath), "")
    ELSE IF jqPath[idx + 1] = "'"
    THEN IF quoted
         THEN jqLoop(jqPath, idx + 1,
                     addElement(jqPath, p, lastSplitIdx, idx, "'"),
                     idx + 1, FALSE)
         ELSE jqLoop(jqPath, idx + 1, p, idx + 1, TRUE)
    ELSE IF jqPath[idx + 1] \in {".", "[", "]"} /\ ~quoted
    THEN jqLoop(jqPath, idx + 1,
                addElement(jqPath, p, lastSplitIdx, idx, jqPath[idx + 1]),
                idx + 1, quoted)
    ELSE jqLoop(jqPath, idx + 1, p, lastSplitIdx, quoted)

NewPathFromJQFormat(jqPath) ==
    IF Len(jqPath) = 0 THEN <<>>
    ELSE jqLoop(jqPath, 0, <<>>, 0, FALSE)

\* strings.Split(s, "/")
RECURSIVE Split(_)
Split(s) ==
    IF \A i \in 1..Len(s) : s[i] # "/"
    THEN <<s>>
    ELSE LET i == CHOOSE j \in 1..Len(s) :
                      s[j] = "/" /\ \A k \in 1..(j - 1) : s[k] # "/"
         IN  <<SubSeq(s, 1, i - 1)>> \o Split(SubSeq(s, i + 1, Len(s)))

\* strings.NewReplacer("~1", "/", "~0", "~").Replace(s)
RECURSIVE unescapeJSONPath(_)
unescapeJSONPath(s) ==
    IF Len(s) = 0 THEN <<>>
    ELSE IF Len(s) >= 2 /\ s[1] = "~" /\ s[2] = "1"
    THEN <<"/">> \o unescapeJSONPath(SubSeq(s, 3, Len(s)))
    ELSE IF Len(s) >= 2 /\ s[1] = "~" /\ s[2] = "0"
    THEN <<"~">> \o unescapeJSONPath(SubSeq(s, 3, Len(s)))
    ELSE <<s[1]>> \o unescapeJSONPath(Tail(s))

\* strings.NewReplacer("/", "~1", "~", "~0").Replace(s)
RECURSIVE escapeJSONPath(_)
escapeJSONPath(s) ==
    IF Len(s) = 0 THEN <<>>
    ELSE IF s[1] = "/" THEN <<"~", "1">> \o escapeJSONPath(Tail(s))
    ELSE IF s[1] = "~" THEN <<"~", "0">> \o escapeJSONPath(Tail(s))
    ELSE <<s[1]>> \o escapeJSONPath(Tail(s))

\* the parts of a JSON path without the empty first one
dropEmptyFirst(parts) ==
    IF Len(parts[1]) = 0 THEN Tail(parts) ELSE parts

\* the parts of a JSON path, each one with '~' unescaped
unescapeParts(parts) ==
    [i \in 1..Len(parts) |->
        IF \E k \in 1..Len(parts[i]) : parts[i][k] = "~"
        THEN unescapeJSONPath(parts[i])
        ELSE parts[i]]

NewPathFromJSONPathFormat(s) ==
    IF Len(s) = 0 \/ s = <<"/">> THEN <<>>
    ELSE unescapeParts(dropEmptyFirst(Split(s)))

\* the elements of a path written one after the other, each after a '/'
RECURSIVE writeElementsRaw(_)
writeElementsRaw(p) ==
    IF Len(p) = 0 THEN <<>>
    ELSE <<"/">> \o p[1] \o writeElementsRaw(Tail(p))

RECURSIVE writeElements(_)
writeElements(p) ==
    IF Len(p) = 0 THEN <<>>
    ELSE <<"/">> \o escapeJSONPath(p[1]) \o writeElements(Tail(p))

ToJSONPath(p) ==
    IF Len(p) = 0 THEN <<"/">> ELSE writeElements(p)

\* the panic of key[0] on an empty string
ErrIndexOutOfRange == [type |-> "panic", key |-> <<>>, why |-> "index out of range"]

\* the loop of SplitKey from the 0-based keyIdx on, key being p[keyIdx]
RECURSIVE splitKeyLoop(_, _)
splitKeyLoop(p, keyIdx) ==
    IF keyIdx > 0 /\ Len(p[keyIdx + 1]) = 0
    THEN [prefix |-> <<>>, key |-> <<>>, err |-> ErrIndexOutOfRange]
    ELSE IF keyIdx > 0 /\ (p[keyIdx + 1][1] = "-" \/ p[keyIdx + 1][1] \in Digit)
    THEN splitKeyLoop(p, keyIdx - 1)
    ELSE [prefix |-> SubSeq(p, 1, keyIdx), key |-> p[keyIdx + 1],
          err |-> [type |-> "nil", key |-> <<>>, why |-> ""]]

\* Path.SplitKey: [prefix, key, err]
SplitKey(p) ==
    IF Len(p) = 0
    THEN [prefix |-> <<>>, key |-> <<>>,
          err |-> [type |-> "nil", key |-> <<>>, why |-> ""]]
    ELSE splitKeyLoop(p, Len(p) - 1)

RECURSIVE DecValue(_)
DecValue(s) ==
    IF Len(s) = 0 THEN 0
    ELSE 10 * DecValue(SubSeq(s, 1, Len(s) - 1)) + DigitVal(s[Len(s)])

RECURSIVE StripZeros(_)
StripZeros(s) ==
    IF Len(s) > 1 /\ s[1] = "0" THEN StripZeros(Tail(s)) ELSE s

\* the largest value of a 32 bit integer, without its last digit
Int32MaxDiv10 == 214748364

\* whether the digits s, without leading zeros, fit in 32 bits
FitsInt32(s) ==
    \/ Len(s) <= 9
    \/ /\ Len(s) = 10
       /\ LET head == DecValue(SubSeq(s, 1, 9))
          IN  \/ head < Int32MaxDiv10
              \/ head = Int32MaxDiv10 /\ DigitVal(s[10]) <= 7

\* strconv.ParseInt(s, 10, 32) for a segment that starts with a digit:
\* ok is FALSE when the call returns an error.
ParseInt(s) ==
    IF Len(s) > 0 /\ (\A i \in 1..Len(s) : s[i] \in Digit) /\ FitsInt32(StripZeros(s))
    THEN [ok |-> TRUE, n |-> DecValue(StripZeros(s))]
    ELSE [ok |-> FALSE, n |-> 0]

\* strconv.Itoa(n) for n >= 0
RECURSIVE Itoa(_)
Itoa(n) == IF n < 10 THEN <<DigitChar(n)>>
           ELSE Append(Itoa(n \div 10), DigitChar(n % 10))

---------------------------------------------------------------------------
(* Errors *)

NoError == [type |-> "nil", key |-> <<>>, why |-> ""]
Err(type, key, why) == [type |-> type, key |-> key, why |-> why]
ErrNotFound(key) == Err("ErrNotFound", key, "")
ErrNotTraversable(key, why) == Err("ErrNotTraversable", key, why)
ErrNotAnArray(key) == Err("ErrNotAnArray", key, "")
ErrMissingArrayTraversal(key) == Err("ErrMissingArrayTraversal", key, "")
ErrIndexNotation == Err("ErrIndexNotation", <<>>, "")
ErrNumError(key) == Err("NumError", key, "")

---------------------------------------------------------------------------
(* WalkArgs                                                                *)
(*                                                                         *)
(* The callbacks are closures in the code.  MatchFunc is "nil", "record"   *)
(* (GeneratePatch: remembers the path, returns true) or "equal" (FindAll   *)
(* and FindFirst: true for a nil matchValue or a deeply equal value, and   *)
(* then remembers the path).  MutateFunc is "nil", "set" (returns          *)
(* mutValue) or "delete" (returns nil).  NotFoundFunc is TRUE when a       *)
(* callback that remembers the path is given.  parent is the kind of the   *)
(* node one level up ("nil" at the root).  What the callbacks remember is  *)
(* returned as the sequence calls of [fn, p] records, in call order.       *)
(***************************************************************************)

WalkArgs(matchAll, matchFunc, matchValue, mutateFunc, mutValue, notFoundFunc) ==
    [MatchAll |-> matchAll, MatchFunc |-> matchFunc, matchValue |-> matchValue,
     MutateFunc |-> mutateFunc, mutValue |-> mutValue,
     NotFoundFunc |-> notFoundFunc,
     appendOnMutate |-> FALSE, walkedPath |-> <<>>, parent |-> "nil"]

NoArgs == WalkArgs(FALSE, "nil", Nil, "nil", Nil, FALSE)

push(src, currentKey, currentNode) ==
    [src EXCEPT !.walkedPath = NewPath(src.walkedPath, currentKey),
                !.parent = currentNode.kind,
                !.appendOnMutate = FALSE]

pushTraversal(src, currentKey, currentNode) ==
    [push(src, currentKey, currentNode) EXCEPT !.appendOnMutate = TRUE]

getKey(args) ==
    IF Len(args.walkedPath) = 0 THEN <<>>
    ELSE args.walkedPath[Len(args.walkedPath)]

\* The change onMutate makes to args.parent at getKey(args):
\* nothing, parent[key] = v, removal of key, or append of v.
NoMut == [m |-> "none", v |-> Nil]
PutMut(x) == [m |-> "put", v |-> x]
DelMut == [m |-> "del", v |-> Nil]
AppMut(x) == [m |-> "app", v |-> x]

\* the result of a walk: value, error, callback calls, change to the parent
Result(val, err, calls, pmut) ==
    [val |-> val, err |-> err, calls |-> calls, pmut |-> pmut]

MutateFunc(args, value) ==
    IF args.MutateFunc = "set" THEN args.mutValue ELSE Nil

\* onMutate with a nil result stored under the key of a map instead of the
\* key being removed
onMutateKeepsKey(args, value) ==
    IF args.MutateFunc = "nil" THEN Result(value, NoError, <<>>, NoMut)
    ELSE CASE args.parent = "map" ->
                Result(MutateFunc(args, value), NoError, <<>>,
                       PutMut(MutateFunc(args, value)))
           [] args.parent = "slice" ->
                Result(MutateFunc(args, value), NoError, <<>>,
                       IF MutateFunc(args, value) = Nil THEN DelMut
                       ELSE IF args.appendOnMutate
                       THEN AppMut(MutateFunc(args, value))
                       ELSE PutMut(MutateFunc(args, value)))
           [] OTHER -> Result(MutateFunc(args, value), NoError, <<>>, NoMut)

\* onMutate that fails after it has removed the key from its parent
onMutateThenFails(args, value) ==
    IF args.MutateFunc = "nil" THEN Result(value, NoError, <<>>, NoMut)
    ELSE Result(Nil, ErrNotTraversable(getKey(args), "map"), <<>>,
                IF args.parent \in {"map", "slice"} THEN DelMut ELSE NoMut)

\* onMutate that removes the key from its parent whatever MutateFunc is
onMutateAlways(args, value) ==
    Result(value, NoError, <<>>,
           IF args.parent \in {"map", "slice"} THEN DelMut ELSE NoMut)

onMutate(args, value) ==
    IF args.MutateFunc = "nil" THEN Result(value, NoError, <<>>, NoMut)
    ELSE LET nv == MutateFunc(args, value)
         IN  CASE args.parent = "map" ->
                    Result(nv, NoError, <<>>,
                           IF nv = Nil THEN DelMut ELSE PutMut(nv))
               [] args.parent = "slice" ->
                    Result(nv, NoError, <<>>,
                           IF nv = Nil THEN DelMut
                           ELSE IF args.appendOnMutate THEN AppMut(nv)
                           ELSE PutMut(nv))
               [] OTHER -> Result(nv, NoError, <<>>, NoMut)

\* The parent container after the change pmut at key: the map or slice
\* statements of onMutate, which changeParentTo then stores one level up.
changeParentTo(parent, key, pmut) ==
    IF parent.kind = "map"
    THEN IF pmut.m = "del" THEN Map(MapDel(parent.v, key))
         ELSE Map(MapPut(parent.v, key, pmut.v))
    ELSE LET idx == ParseInt(key).n
         IN  IF pmut.m = "del" THEN Arr(SeqDel(parent.v, idx))
             ELSE IF pmut.m = "app" THEN Arr(Append(parent.v, pmut.v))
             ELSE Arr([parent.v EXCEPT ![idx + 1] = pmut.v])

\* the change a node passes to its own parent after its child changed it
Propagate(node, key, r) ==
    IF r.pmut.m = "none" THEN r
    ELSE [r EXCEPT !.pmut = PutMut(changeParentTo(node, key, r.pmut))]

\* errNotFound(key): tells NotFoundFunc the walked path, with key when it
\* is not empty, and fails with ErrNotFound(key).
errNotFound(args, key) ==
    Result(Nil, ErrNotFound(key),
           IF args.NotFoundFunc
           THEN <<[fn |-> "notfound",
                   p |-> IF Len(key) > 0 THEN Append(args.walkedPath, key)
                         ELSE args.walkedPath]>>
           ELSE <<>>,
           NoMut)

\* a MatchFunc that accepts every value
MatchFuncAnyValue(args, node) == TRUE

\* a MatchFunc that is given the value MutateFunc returns for node
MatchFuncOnMutated(args, node) ==
    args.matchValue = Nil \/ MutateFunc(args, node) = args.matchValue

\* the outcome of MatchFunc(node, walkedPath)
MatchFunc(args, node) ==
    IF args.MatchFunc = "record" THEN TRUE
    ELSE args.matchValue = Nil \/ node = args.matchValue

Dash == <<"-">>

---------------------------------------------------------------------------
(* walk *)

\* The slice after the child at 0-based idx asked for the change pmut.
\* backing is what the range loop reads its next child from: the loop keeps
\* the slice header it started with, so a removal shifts the later slots
\* down in place and leaves the last slot as it was.  current is the slice
\* the document holds afterwards (what changeParentTo stored).
LoopMutate(backing, current, idx, pmut) ==
    CASE pmut.m = "put" ->
            [backing |-> [backing EXCEPT ![idx + 1] = pmut.v],
             current |-> [backing EXCEPT ![idx + 1] = pmut.v]]
      [] pmut.m = "del" ->
            [backing |-> Append(SeqDel(backing, idx), backing[Len(backing)]),
             current |-> SeqDel(backing, idx)]
      [] pmut.m = "app" ->
            [backing |-> backing, current |-> Append(backing, pmut.v)]
      [] OTHER -> [backing |-> backing, current |-> current]

\* r with the calls made before it put in front
AfterCalls(calls, r) == [r EXCEPT !.calls = calls \o r.calls]

\* traverseEnd with a single match returned as a list of one
traverseEndNoUnwrap(args, values, calls, pmut) ==
    IF args.MatchAll /\ Len(values) >= 1
    THEN Result(Arr(values), NoError, calls, pmut)
    ELSE [AfterCalls(calls, errNotFound(args, Dash)) EXCEPT !.pmut = pmut]

\* what the traversal case returns once its loop has ended without an
\* early return
traverseEnd(args, values, calls, pmut) ==
    IF args.MatchAll /\ Len(values) = 1
    THEN Result(values[1], NoError, calls, pmut)
    ELSE IF args.MatchAll /\ Len(values) > 1
    THEN Result(Arr(values), NoError, calls, pmut)
    ELSE [AfterCalls(calls, errNotFound(args, Dash)) EXCEPT !.pmut = pmut]

RECURSIVE walk(_, _, _), traverse(_, _, _, _, _, _, _, _, _),
          traverseStep(_, _, _, _, _, _, _, _, _, _)

\* traverse with loops that start at index 1
traverseSkipsFirst(node, backing, current, idx, rest, args, values, calls, changed) ==
    IF idx >= Len(node.v)
    THEN traverseEnd(args, values, calls,
                     IF changed THEN PutMut(Arr(current)) ELSE NoMut)
    ELSE IF idx = 0
    THEN traverse(node, backing, current, 1, rest, args, values, calls, changed)
    ELSE traverseStep(node, backing, current, idx, rest, args, values, calls,
                      changed,
                      walk(backing[idx + 1], rest,
                           pushTraversal(args, Itoa(idx), node)))

\* The loops of the traversal case, from 0-based index idx on: values and
\* calls are what the earlier iterations collected, changed whether one of
\* them changed the slice.
traverse(node, backing, current, idx, rest, args, values, calls, changed) ==
    IF idx >= Len(node.v)
    THEN traverseEnd(args, values, calls,
                     IF changed THEN PutMut(Arr(current)) ELSE NoMut)
    ELSE traverseStep(node, backing, current, idx, rest, args, values, calls,
                      changed,
                      walk(backing[idx + 1], rest,
                           pushTraversal(args, Itoa(idx), node)))

\* one iteration of the loop, r being the result of walking the child
traverseStep(node, backing, current, idx, rest, args, values, calls, changed, r) ==
    IF r.err # NoError
    THEN traverse(node, backing, current, idx + 1, rest, args,
                  values, calls \o r.calls, changed)
    ELSE IF ~args.MatchAll
    THEN Result(r.val, NoError, calls \o r.calls,
                IF changed \/ r.pmut.m # "none"
                THEN PutMut(Arr(LoopMutate(backing, current, idx, r.pmut).current))
                ELSE NoMut)
    ELSE traverse(node,
                  LoopMutate(backing, current, idx, r.pmut).backing,
                  LoopMutate(backing, current, idx, r.pmut).current,
                  idx + 1, rest, args, Append(values, r.val),
                  calls \o r.calls, changed \/ r.pmut.m # "none")

walk(node, path, args) ==
    IF Len(path) = 0
    THEN IF args.MatchFunc # "nil"
         THEN IF ~MatchFunc(args, node)
              THEN errNotFound(args, <<>>)
              ELSE [onMutate(args, node) EXCEPT
                       !.calls = <<[fn |-> "match", p |-> args.walkedPath]>>]
         ELSE onMutate(args, node)
    ELSE IF node = Nil
    THEN Result(Nil, ErrNotTraversable(getKey(args), "nil"), <<>>, NoMut)
    ELSE IF node.kind = "map"
    THEN LET key == path[1]
         IN  IF GetArrayNotation(key) # ArrayNotationInvalid
             THEN Result(Nil, ErrNotAnArray(getKey(args)), <<>>, NoMut)
             ELSE IF key \notin DOMAIN node.v
             THEN IF Len(path) = 1 /\ args.MutateFunc # "nil"
                  THEN Propagate(node, key, onMutate(push(args, key, node), Nil))
                  ELSE errNotFound(args, key)
             ELSE Propagate(node, key,
                            walk(node.v[key], Tail(path), push(args, key, node)))
    ELSE IF node.kind = "slice"
    THEN LET arrayIdx == path[1]
             notation == GetArrayNotation(arrayIdx)
         IN  IF notation = ArrayNotationIndex
             THEN LET parsed == ParseInt(arrayIdx)
                  IN  IF ~parsed.ok
                      THEN Result(Nil, ErrNumError(arrayIdx), <<>>, NoMut)
                      ELSE IF parsed.n >= Len(node.v)
                      THEN errNotFound(args, arrayIdx)
                      ELSE Propagate(node, arrayIdx,
                                     walk(node.v[parsed.n + 1], Tail(path),
                                          push(args, arrayIdx, node)))
             ELSE IF notation = ArrayNotationTraversal
             THEN traverse(node, node.v, node.v, 0, Tail(path), args,
                           <<>>, <<>>, FALSE)
             ELSE Result(Nil, ErrMissingArrayTraversal(getKey(args)), <<>>, NoMut)
    ELSE Result(Nil, ErrNotTraversable(getKey(args), node.kind), <<>>, NoMut)


---------------------------------------------------------------------------
(* Operations of NamedObject built on walk *)

\* NamedObject.Walk: the root map is changed in place
WalkResult(obj, r) ==
    [val |-> r.val, err |-> r.err, calls |-> r.calls,
     obj |-> IF r.pmut.m = "put" THEN r.pmut.v ELSE obj]

Walk(obj, path, args) == WalkResult(obj, walk(obj, path, args))

Get(obj, path) == Walk(obj, path, NoArgs)

Has(obj, path) == Walk(obj, path, NoArgs).err = NoError

\* Delete without its MutateFunc
DeleteWithoutMutate(obj, path) == Walk(obj, path, NoArgs)

Delete(obj, path) ==
    Walk(obj, path, WalkArgs(FALSE, "nil", Nil, "delete", Nil, FALSE))

\* reflect.TypeOf(value).String() for a value that is not nil
TypeString(value) ==
    CASE value.kind = "map" -> "map[string]interface {}"
      [] value.kind = "slice" -> "[]interface {}"
      [] OTHER -> value.kind

ErrIncorrectType(type) == Err("ErrIncorrectType", <<>>, type)

\* reflect.TypeOf(nil) is a nil Type: calling String() on it panics with a
\* nil pointer dereference, which ends the call without a return value
NilTypePanic == Err("panic", <<>>, "nil pointer dereference")

\* GetString, GetSection and GetList after Get returned r: kind is the Go
\* kind asserted and zero what is returned next to an error
typedValue(r, kind, zero) ==
    IF r.err # NoError
    THEN [r EXCEPT !.val = zero]
    ELSE IF r.val.kind = kind
    THEN r
    ELSE IF r.val = Nil
    THEN [r EXCEPT !.val = zero, !.err = NilTypePanic]
    ELSE [r EXCEPT !.val = zero, !.err = ErrIncorrectType(TypeString(r.val))]

GetString(obj, path) == typedValue(Get(obj, path), "string", Str(<<>>))

GetSection(obj, path) == typedValue(Get(obj, path), "map", Nil)

GetList(obj, path) == typedValue(Get(obj, path), "slice", Nil)

\* the paths that matchValue was given when it returned true, in call order
RECURSIVE matchedPaths(_)
matchedPaths(calls) ==
    IF Len(calls) = 0 THEN <<>>
    ELSE IF calls[1].fn = "match"
    THEN <<calls[1].p>> \o matchedPaths(Tail(calls))
    ELSE matchedPaths(Tail(calls))

\* FindAll after its Walk returned r
foundAll(r) == [paths |-> matchedPaths(r.calls), err |-> r.err, obj |-> r.obj]

FindAll(obj, path, value) ==
    foundAll(Walk(obj, path, WalkArgs(TRUE, "equal", value, "nil", Nil, FALSE)))

\* FindFirst after its Walk returned r: matchedPath is the path of the last
\* call of matchValue that returned true, Path{} without one
foundFirst(r) ==
    [path |-> IF Len(matchedPaths(r.calls)) = 0 THEN <<>>
              ELSE matchedPaths(r.calls)[Len(matchedPaths(r.calls))],
     err |-> r.err, obj |-> r.obj]

FindFirst(obj, path, value) ==
    foundFirst(Walk(obj, path, WalkArgs(FALSE, "equal", value, "nil", Nil, FALSE)))

---------------------------------------------------------------------------
(* GeneratePatch *)

\* The value GeneratePatch builds is a chain of fresh nodes, each holding
\* the next one: chain lists, from extendedValue down to parentNode, the
\* slots filled so far ("key": a map entry, "elem": slot 0 of a one-element
\* slice).  parentNode is the kind of the node the next one is added to.
KeySlot(k) == [t |-> "key", k |-> k]
ElemSlot == [t |-> "elem", k |-> <<>>]

RECURSIVE Wrap(_, _)
Wrap(chain, value) ==
    IF Len(chain) = 0 THEN value
    ELSE IF chain[1].t = "key"
    THEN Map(MapPut(<<>>, chain[1].k, Wrap(Tail(chain), value)))
    ELSE Arr(<<Wrap(Tail(chain), value)>>)

\* addToParent(key, node), followed by parentNode = node for a node of kind
\* nodeKind
addToParent(st, key, nodeKind) ==
    [parentNode |-> nodeKind,
     chain |->
        CASE st.parentNode = "slice" ->
                IF key = Dash THEN Append(st.chain, ElemSlot)
                ELSE st.chain \o <<ElemSlot, KeySlot(key)>>
          [] st.parentNode = "map" -> Append(st.chain, KeySlot(key))
          [] OTHER -> IF key = Dash THEN <<ElemSlot>> ELSE <<KeySlot(key)>>]

\* the loop over path[idx:] (0-based idx) that creates the missing nodes
RECURSIVE extendLoop(_, _, _)
extendLoop(path, idx, st) ==
    IF idx >= Len(path) THEN [ok |-> TRUE, st |-> st]
    ELSE LET key == path[idx + 1]
             arrayNotation == IsArray(path, idx)[2]
         IN  IF arrayNotation = ArrayNotationInvalid
             THEN IF idx < Len(path) - 1
                  THEN extendLoop(path, idx + 1, addToParent(st, key, "map"))
                  ELSE extendLoop(path, idx + 1, st)
             ELSE IF arrayNotation = ArrayNotationTraversal
             THEN extendLoop(path, IF key # Dash THEN idx + 2 ELSE idx + 1,
                             addToParent(st, key, "slice"))
             ELSE [ok |-> FALSE, st |-> st]

\* the path the callbacks of GeneratePatch left in validPath
validPathOf(path, calls) ==
    IF Len(calls) = 0 THEN <<>>
    ELSE LET last == calls[Len(calls)]
         IN  IF last.fn = "match"
                /\ GetArrayNotation(path[Len(path)]) = ArrayNotationTraversal
             THEN [last.p EXCEPT ![Len(last.p)] = Dash]
             ELSE last.p

\* Patch(path, value, err): what GeneratePatch returns; obj is the object
\* after the call
Patch(path, value, err, obj) ==
    [path |-> path, value |-> value, err |-> err, obj |-> obj]

\* the part of GeneratePatch that builds the value for the missing nodes:
\* rootArrayNotation is the notation found at the end of validPath
extendValue(path, value, validPath, rootArrayNotation, obj) ==
    LET firstIdx == Len(validPath)
        rootArray == rootArrayNotation = ArrayNotationTraversal
                        /\ path[firstIdx + 1] = Dash
        start == [parentNode |->
                      IF rootArrayNotation = ArrayNotationInvalid THEN "map"
                      ELSE IF rootArray THEN "slice" ELSE "nil",
                  chain |-> <<>>]
        loop == extendLoop(path, IF rootArray THEN firstIdx + 1 ELSE firstIdx,
                           start)
    IN  IF rootArrayNotation = ArrayNotationIndex \/ ~loop.ok
        THEN Patch(validPath, value, ErrIndexNotation, obj)
        ELSE Patch(validPath,
                   Wrap(addToParent(loop.st, path[Len(path)], "value").chain,
                        value),
                   NoError, obj)

\* the panic of path[idx:] for idx = -1, in path.IsArray(len(validPath) - 1)
ErrSliceBounds == Err("panic", <<>>, "slice bounds out of range")

\* patchAfterWalk that drops an error that is not ErrNotFound
patchAfterWalkAnyError(path, value, w, validPath) ==
    IF w.err = NoError \/ Len(validPath) = Len(path)
    THEN Patch(validPath, value, NoError, w.obj)
    ELSE IF w.err.type # "ErrNotFound"
    THEN Patch(validPath, value, NoError, w.obj)
    ELSE IF Len(validPath) = 0
    THEN Patch(validPath, value, ErrSliceBounds, w.obj)
    ELSE extendValue(path, value, validPath,
                     IsArray(path, Len(validPath) - 1)[2], w.obj)

\* GeneratePatch after its walk: w is the result of the walk, validPath
\* what the callbacks left.  An empty first key that the root does not hold
\* leaves validPath empty, and path.IsArray(-1) panics.
patchAfterWalk(path, value, w, validPath) ==
    IF w.err = NoError \/ Len(validPath) = Len(path)
    THEN Patch(validPath, value, NoError, w.obj)
    ELSE IF w.err.type # "ErrNotFound"
    THEN Patch(validPath, value, w.err, w.obj)
    ELSE IF Len(validPath) = 0
    THEN Patch(validPath, value, ErrSliceBounds, w.obj)
    ELSE extendValue(path, value, validPath,
                     IsArray(path, Len(validPath) - 1)[2], w.obj)

patchOfWalk(path, value, w) ==
    patchAfterWalk(path, value, w, validPathOf(path, w.calls))

GeneratePatch(obj, path, value) ==
    IF Len(path) = 0
    THEN Patch(path, value, NoError, obj)
    ELSE patchOfWalk(path, value,
                     Walk(obj, path,
                          WalkArgs(FALSE, "record", Nil, "nil", Nil, TRUE)))

\* the walk of Set, with the path and the value of the patch; a panic of
\* GeneratePatch ends the call before the walk
setWalk(patch) ==
    IF patch.err = ErrSliceBounds
    THEN [val |-> Nil, err |-> patch.err, calls |-> <<>>, obj |-> patch.obj]
    ELSE Walk(patch.obj, patch.path,
              WalkArgs(FALSE, "nil", Nil, "set", patch.value, FALSE))

\* Set: the error of GeneratePatch is dropped
Set(obj, path, value) == setWalk(GeneratePatch(obj, path, value))

---------------------------------------------------------------------------
(* Annotations and labels *)

PathMetadata == << <<"m", "e", "t", "a", "d", "a", "t", "a">> >>
PathLabels == NewPath(PathMetadata, <<"l", "a", "b", "e", "l", "s">>)
PathAnnotations ==
    NewPath(PathMetadata,
            <<"a", "n", "n", "o", "t", "a", "t", "i", "o", "n", "s">>)

PathMetadataName == NewPath(PathMetadata, <<"n", "a", "m", "e">>)
PathMetadataNamespace ==
    NewPath(PathMetadata, <<"n", "a", "m", "e", "s", "p", "a", "c", "e">>)

SetName(obj, value) == Set(obj, PathMetadataName, Str(value))

SetNamespace(obj, value) == Set(obj, PathMetadataNamespace, Str(value))

\* maps.Copy(obj, new): every key of the Go map new is written over the root
SetUnstructuredContent(obj, new) ==
    Map([k \in (DOMAIN obj.v) \cup (DOMAIN new) |->
            IF k \in DOMAIN new THEN new[k] ELSE obj.v[k]])

GetLabel(obj, key) == GetString(obj, NewPath(PathLabels, key))

GetAnnotation(obj, key) == GetString(obj, NewPath(PathAnnotations, key))

SetAnnotation(obj, key, value) == Set(obj, NewPath(PathAnnotations, key), Str(value))

SetLabel(obj, key, value) == Set(obj, NewPath(PathLabels, key), Str(value))

---------------------------------------------------------------------------
(* Hash                                                                    *)
(*                                                                         *)
(* The hasher is modelled by what is written to it: Sum64 is a function of *)
(* the bytes written, in the order they were written, and of nothing else. *)
(* A result is a record [bytes, err] of the bytes written so far and the   *)
(* error returned.  The order in which range visits the keys of a Go map   *)
(* is not defined: it is an argument, one of RangeOrders.                  *)
(***************************************************************************)

LowerCase ==
    <<"a", "b", "c", "d", "e", "f", "g", "h", "i", "j", "k", "l", "m",
      "n", "o", "p", "q", "r", "s", "t", "u", "v", "w", "x", "y", "z">>

\* the byte of a character
CharCode(c) ==
    IF c \in Digit THEN 48 + DigitVal(c)
    ELSE IF \E i \in 1..Len(LowerCase) : LowerCase[i] = c
    THEN 96 + (CHOOSE i \in 1..Len(LowerCase) : LowerCase[i] = c)
    ELSE CASE c = "'" -> 39 [] c = "-" -> 45 [] c = "." -> 46
           [] c = "/" -> 47 [] c = "[" -> 91 [] c = "]" -> 93
           [] c = "~" -> 126

\* a < b for Go strings: byte by byte, a prefix before what it begins
RECURSIVE StringLess(_, _)
StringLess(a, b) ==
    IF Len(b) = 0 THEN FALSE
    ELSE IF Len(a) = 0 THEN TRUE
    ELSE IF a[1] = b[1] THEN StringLess(Tail(a), Tail(b))
    ELSE CharCode(a[1]) < CharCode(b[1])

\* the strings of a set in ascending order
RECURSIVE Ascending(_)
Ascending(S) ==
    IF S = {} THEN <<>>
    ELSE LET least == CHOOSE x \in S : \A y \in S : ~StringLess(y, x)
         IN  <<least>> \o Ascending(S \ {least})

Reverse(s) == [i \in 1..Len(s) |-> s[Len(s) + 1 - i]]

RangeOrders == {"ascending", "descending", "rotated"}

\* for k := range obj { keys = append(keys, k) }: the keys in the order
\* in which this run of the loop visits them
rangeKeys(m, order) ==
    CASE order = "ascending" -> Ascending(DOMAIN m)
      [] order = "descending" -> Reverse(Ascending(DOMAIN m))
      [] order = "rotated" ->
            IF DOMAIN m = {} THEN <<>>
            ELSE Tail(Ascending(DOMAIN m)) \o <<Ascending(DOMAIN m)[1]>>

\* sorted with k put at its place
RECURSIVE insertSorted(_, _)
insertSorted(k, sorted) ==
    IF Len(sorted) = 0 THEN <<k>>
    ELSE IF StringLess(sorted[1], k)
    THEN <<sorted[1]>> \o insertSorted(k, Tail(sorted))
    ELSE <<k>> \o sorted

\* keys left in the order of range
keysAsVisited(keys) == keys

\* sort.StringSlice(keys).Sort()
RECURSIVE sortStringSlice(_)
sortStringSlice(keys) ==
    IF Len(keys) = 0 THEN <<>>
    ELSE insertSorted(keys[1], sortStringSlice(Tail(keys)))

ErrUnsupportedHashType(k) == Err("ErrUnsupportedHashType", k, "")

\* errors.Wrapf(err2, ...) of a second failing element of an array
ErrWrapped(k) == Err("Wrapf", k, "ErrUnsupportedHashType")

\* fmt.Sprintf("%f", v) for a float64 that holds a natural number
SprintfF(n) == Itoa(n) \o <<".", "0", "0", "0", "0", "0", "0">>

Written(bytes, err) == [bytes |-> bytes, err |-> err]

RECURSIVE getOrderedHash(_, _, _), hashKeys(_, _, _, _),
          hashKeysStep(_, _, _, _), doHash(_, _, _, _),
          hashElements(_, _, _, _, _), hashElementsStep(_, _, _, _, _)

\* getOrderedHash on a hasher that has been given bytes
getOrderedHash(bytes, obj, order) ==
    hashKeys(bytes, obj, sortStringSlice(rangeKeys(obj.v, order)), order)

\* the loop of getOrderedHash over the keys left
hashKeys(bytes, obj, keys, order) ==
    IF Len(keys) = 0 THEN Written(bytes, NoError)
    ELSE hashKeysStep(doHash(bytes \o keys[1], keys[1], obj.v[keys[1]], order),
                      obj, Tail(keys), order)

\* one key has been hashed with the result r
hashKeysStep(r, obj, keys, order) ==
    IF r.err # NoError THEN r
    ELSE hashKeys(r.bytes, obj, keys, order)

doHash(bytes, k, iv, order) ==
    CASE iv.kind = "string" -> Written(bytes \o iv.v, NoError)
      [] iv.kind = "float64" -> Written(bytes \o SprintfF(iv.v), NoError)
      [] iv.kind = "bool" ->
            Written(bytes \o (IF iv.v THEN <<"t", "r", "u", "e">>
                              ELSE <<"f", "a", "l", "s", "e">>), NoError)
      [] iv.kind = "map" -> getOrderedHash(bytes, iv, order)
      [] iv.kind = "slice" -> hashElements(bytes, k, iv.v, order, NoError)
      [] OTHER -> Written(bytes, ErrUnsupportedHashType(k))

\* the loop of doHash over the elements left of a []interface{}, err being
\* the error kept so far
hashElements(bytes, k, elems, order, err) ==
    IF Len(elems) = 0 THEN Written(bytes, err)
    ELSE hashElementsStep(doHash(bytes, k, elems[1], order), k, Tail(elems),
                          order, err)

\* one element has been hashed with the result r
hashElementsStep(r, k, elems, order, err) ==
    hashElements(r.bytes, k, elems, order,
                 IF r.err = NoError THEN err
                 ELSE IF err = NoError THEN r.err
                 ELSE ErrWrapped(k))

\* NamedObject.Hash: the sum of the bytes written, and the error
Hash(obj, order) == getOrderedHash(<<>>, obj, order)

---------------------------------------------------------------------------
(* The inputs of the calls *)

KeyA == <<"a">>
KeyB == <<"b">>
Idx0 == <<"0">>
Idx1 == <<"1">>
\* segments that are neither "-" nor a decimal number, but start like one
DashX == <<"-", "x">>
OneX == <<"1", "x">>
\* the empty key, and the smallest decimal index that does not fit in 32 bits
KeyEmpty == <<>>
IdxBig == <<"2", "1", "4", "7", "4", "8", "3", "6", "4", "8">>

Segments == {KeyA, KeyB, Dash, Idx0, Idx1, DashX, OneX, KeyEmpty, IdxBig}

RECURSIVE PathsOfLen(_)
PathsOfLen(n) ==
    IF n = 0 THEN {<<>>}
    ELSE {Append(p, s) : p \in PathsOfLen(n - 1), s \in Segments}

Paths == UNION {PathsOfLen(n) : n \in 0..MaxPathLen}

StrS == Str(<<"s">>)
StrT == Str(<<"t">>)
StrU == Str(<<"u">>)
StrV == Str(<<"v">>)

\* a map with the one key k
Map1(k, x) == Map(MapPut(<<>>, k, x))
\* a map with the keys a and b
Map2(x, y) == Map(MapPut(MapPut(<<>>, KeyA, x), KeyB, y))

Values == {StrV, Nil, Map1(KeyB, StrV)}

\* keys of annotations and labels: a name, a name with a prefix, and names
\* that begin with a digit or with "-"
AnnotationKeys == {KeyA, KeyB, <<"a", "/", "b">>, OneX, DashX}

\* values of annotations and labels
AnnotationValues == {StrV.v, <<>>}

\* documents with a metadata section: with annotations and labels, and
\* without them
MetadataDocs ==
    { Map(PathMetadata[1] :> Map((PathAnnotations[2] :> Map1(KeyA, StrS))
                                   @@ (PathLabels[2] :> Map1(KeyB, StrT)))),
      Map(PathMetadata[1] :> EmptyMap) }

\* values looked for: nil (any value), strings and maps of the documents
FindValues == {Nil, StrS, StrT, Map1(KeyB, StrS), EmptyMap}

\* Documents as NewNamedObject or NamedObjectFromRaw give them: a root map
\* holding maps, slices (empty, of scalars, of maps, of slices, mixed),
\* strings, numbers and null.
InitDocs ==
    { EmptyMap,
      Map1(KeyA, Map1(KeyB, StrS)),
      Map2(StrS, Nil),
      Map1(KeyA, Arr(<<StrS, StrT>>)),
      Map1(KeyA, Arr(<<>>)),
      Map1(KeyA, Arr(<<Map1(KeyB, StrS), StrT, Map2(StrT, StrU)>>)),
      Map1(KeyA, Arr(<<Arr(<<>>), Arr(<<StrS, StrT>>)>>)),
      Map2(Arr(<<EmptyMap, StrS>>), Num(7)),
      Map2(Map2(EmptyMap, Arr(<<StrS>>)), Bool(TRUE)),
      Map(MapPut(MapPut(<<>>, KeyA, StrS), KeyEmpty, Map1(KeyB, StrT))) }

---------------------------------------------------------------------------
(* The state machine: calls on one NamedObject *)

\* what stands for the result of a Hash that has not been called
NotHashed == Written(<<>>, Err("not called", <<>>, ""))

\* no MatchFunc
NoMatch == [fn |-> "nil", v |-> Nil]

\* no document has been hashed
HashIdle ==
    /\ left = EmptyMap
    /\ right = EmptyMap
    /\ leftHash = NotHashed
    /\ rightHash = NotHashed

\* no Path has been built in storage
MemIdle ==
    /\ mem = <<>>
    /\ pathOf = <<>>
    /\ held = <<>>
    /\ memOp = [fn |-> "none"]
    /\ memOps = 0

\* no function of Path has been applied
PathIdle ==
    /\ text = <<>>
    /\ fn = "none"
    /\ textPath = <<>>
    /\ textNotation = ArrayNotationInvalid
    /\ jsonPath = <<>>
    /\ splitKey = SplitKey(<<>>)

Init ==
    /\ doc \in InitDocs \cup MetadataDocs
    /\ nops = 0
    /\ op = "none"
    /\ argPath = <<>>
    /\ argValue = Nil
    /\ argAll = FALSE
    /\ argMatch = NoMatch
    /\ before = doc
    /\ retVal = Nil
    /\ retErr = NoError
    /\ retPath = <<>>
    /\ retPaths = <<>>
    /\ PathIdle
    /\ HashIdle
    /\ MemIdle

\* whether one more call is made on the document
MoreCalls == nops < MaxOps

\* what every call records
CalledWith(name, path, value, all, match) ==
    /\ nops' = nops + 1
    /\ op' = name
    /\ argPath' = path
    /\ argValue' = value
    /\ argAll' = all
    /\ argMatch' = match
    /\ before' = doc
    /\ UNCHANGED <<pathVars, hashVars, memVars>>

\* a call that is given no MatchFunc
Called(name, path, value, all) == CalledWith(name, path, value, all, NoMatch)

\* a call that returned r: the object, the value and the error of r
Returned(name, path, value, all, r) ==
    /\ Called(name, path, value, all)
    /\ doc' = r.obj
    /\ retVal' = r.val
    /\ retErr' = r.err
    /\ retPath' = <<>>
    /\ retPaths' = <<>>

CallGet ==
    /\ MoreCalls
    /\ \E path \in Paths : Returned("Get", path, Nil, FALSE, Get(doc, path))

\* Has: the walk of Get, told as true or false
CallHas ==
    /\ MoreCalls
    /\ \E path \in Paths :
        Returned("Has", path, Nil, FALSE,
                 [Get(doc, path) EXCEPT !.val = Bool(Has(doc, path)),
                                        !.err = NoError])

\* Hash: the bytes given to the hasher stand for the sum
CallHash ==
    /\ MoreCalls
    /\ \E order \in RangeOrders :
        Returned("Hash", <<>>, Nil, FALSE,
                 [obj |-> doc, val |-> Str(Hash(doc, order).bytes),
                  err |-> Hash(doc, order).err])

CallWalk ==
    /\ MoreCalls
    /\ \E path \in Paths, all \in BOOLEAN :
        Returned("Walk", path, Nil, all,
                 Walk(doc, path, WalkArgs(all, "nil", Nil, "nil", Nil, FALSE)))

\* the values the MatchFunc of a mutating Walk accepts
MatchValues == {StrS, StrT}

\* Walk with a MutateFunc that returns value (nil removes), with no
\* MatchFunc or with one that accepts the values equal to match.v
CallWalkMutate ==
    /\ MoreCalls
    /\ \E path \in Paths, all \in BOOLEAN, value \in Values,
          match \in {NoMatch} \cup {[fn |-> "equal", v |-> x] : x \in MatchValues} :
        LET r == Walk(doc, path,
                      WalkArgs(all, match.fn, match.v, "set", value, FALSE))
        IN  /\ CalledWith("WalkMutate", path, value, all, match)
            /\ doc' = r.obj
            /\ retVal' = r.val
            /\ retErr' = r.err
            /\ retPath' = <<>>
            /\ retPaths' = <<>>

CallSet ==
    /\ MoreCalls
    /\ \E path \in Paths, value \in Values :
        Returned("Set", path, value, FALSE, Set(doc, path, value))

CallDelete ==
    /\ MoreCalls
    /\ \E path \in Paths :
        Returned("Delete", path, Nil, FALSE, Delete(doc, path))

\* a call of GeneratePatch that returned the patch r
ReturnedPatch(path, value, r) ==
    /\ Called("GeneratePatch", path, value, FALSE)
    /\ doc' = r.obj
    /\ retVal' = r.value
    /\ retErr' = r.err
    /\ retPath' = r.path
    /\ retPaths' = <<>>

CallGeneratePatch ==
    /\ MoreCalls
    /\ \E path \in Paths, value \in Values :
        ReturnedPatch(path, value, GeneratePatch(doc, path, value))

CallGetString ==
    /\ MoreCalls
    /\ \E path \in Paths :
        Returned("GetString", path, Nil, FALSE, GetString(doc, path))

CallGetSection ==
    /\ MoreCalls
    /\ \E path \in Paths :
        Returned("GetSection", path, Nil, FALSE, GetSection(doc, path))

CallGetList ==
    /\ MoreCalls
    /\ \E path \in Paths :
        Returned("GetList", path, Nil, FALSE, GetList(doc, path))

\* a call of FindAll that returned r
ReturnedPaths(path, value, r) ==
    /\ Called("FindAll", path, value, TRUE)
    /\ doc' = r.obj
    /\ retVal' = Nil
    /\ retErr' = r.err
    /\ retPath' = <<>>
    /\ retPaths' = r.paths

CallFindAll ==
    /\ MoreCalls
    /\ \E path \in Paths, value \in FindValues :
        ReturnedPaths(path, value, FindAll(doc, path, value))

\* a call of FindFirst that returned r
ReturnedPath(path, value, r) ==
    /\ Called("FindFirst", path, value, FALSE)
    /\ doc' = r.obj
    /\ retVal' = Nil
    /\ retErr' = r.err
    /\ retPath' = r.path
    /\ retPaths' = <<>>

CallFindFirst ==
    /\ MoreCalls
    /\ \E path \in Paths, value \in FindValues :
        ReturnedPath(path, value, FindFirst(doc, path, value))

CallSetAnnotation ==
    /\ MoreCalls
    /\ \E key \in AnnotationKeys, value \in AnnotationValues :
        Returned("SetAnnotation", NewPath(PathAnnotations, key), Str(value),
                 FALSE, SetAnnotation(doc, key, value))

CallSetLabel ==
    /\ MoreCalls
    /\ \E key \in AnnotationKeys, value \in AnnotationValues :
        Returned("SetLabel", NewPath(PathLabels, key), Str(value),
                 FALSE, SetLabel(doc, key, value))

CallSetName ==
    /\ MoreCalls
    /\ \E value \in AnnotationValues :
        Returned("SetName", PathMetadataName, Str(value), FALSE,
                 SetName(doc, value))

CallSetNamespace ==
    /\ MoreCalls
    /\ \E value \in AnnotationValues :
        Returned("SetNamespace", PathMetadataNamespace, Str(value), FALSE,
                 SetNamespace(doc, value))

\* the maps given to SetUnstructuredContent
Contents ==
    {<<>>, Map1(KeyA, StrV).v, Map2(StrV, StrV).v, Map1(KeyB, Nil).v,
     Map1(KeyA, Map1(KeyB, StrV)).v, Map1(PathMetadata[1], StrV).v}

\* SetUnstructuredContent returns nothing
CallSetUnstructuredContent ==
    /\ MoreCalls
    /\ \E new \in Contents :
        Returned("SetUnstructuredContent", <<>>, Map(new), FALSE,
                 [obj |-> SetUnstructuredContent(doc, new), val |-> Nil,
                  err |-> NoError])

CallGetAnnotation ==
    /\ MoreCalls
    /\ \E key \in AnnotationKeys :
        Returned("GetAnnotation", NewPath(PathAnnotations, key), Nil,
                 FALSE, GetAnnotation(doc, key))

CallGetLabel ==
    /\ MoreCalls
    /\ \E key \in AnnotationKeys :
        Returned("GetLabel", NewPath(PathLabels, key), Nil,
                 FALSE, GetLabel(doc, key))

Next ==
    \/ CallGet
    \/ CallHas
    \/ CallHash
    \/ CallWalk
    \/ CallWalkMutate
    \/ CallSet
    \/ CallDelete
    \/ CallGeneratePatch
    \/ CallGetString
    \/ CallGetSection
    \/ CallGetList
    \/ CallFindAll
    \/ CallFindFirst
    \/ CallSetAnnotation
    \/ CallSetLabel
    \/ CallSetName
    \/ CallSetNamespace
    \/ CallSetUnstructuredContent
    \/ CallGetAnnotation
    \/ CallGetLabel

Spec == Init /\ [][Next]_vars

---------------------------------------------------------------------------
(* The functions of Path, applied to strings *)

\* the strings of at most n characters of the set chars
StringsOver(chars, n) == UNION {[1..k -> chars] : k \in 0..n}

\* JQ-style paths and what is not one
JQChars == {"a", "1", ".", "[", "]", "'"}
\* JSON-Pointer strings and what is not one
PointerChars == {"/", "~", "0", "1", "a"}
\* path segments: decimal numbers, "-", keys, and what begins like them
SegmentChars == {"-", "1", "x"}

Texts ==
    StringsOver(JQChars, MaxTextLen)
        \cup StringsOver(PointerChars, MaxTextLen)
        \cup StringsOver(SegmentChars, MaxTextLen)

\* no call is made on a document
DocIdle ==
    /\ doc = EmptyMap
    /\ nops = 0
    /\ op = "none"
    /\ argPath = <<>>
    /\ argValue = Nil
    /\ argAll = FALSE
    /\ argMatch = NoMatch
    /\ before = doc
    /\ retVal = Nil
    /\ retErr = NoError
    /\ retPath = <<>>
    /\ retPaths = <<>>

PathInit ==
    /\ DocIdle
    /\ HashIdle
    /\ MemIdle
    /\ text \in Texts
    /\ fn = "none"
    /\ textPath = <<>>
    /\ textNotation = ArrayNotationInvalid
    /\ jsonPath = <<>>
    /\ splitKey = SplitKey(<<>>)

ApplyGetArrayNotation ==
    /\ fn = "none"
    /\ fn' = "GetArrayNotation"
    /\ textNotation' = GetArrayNotation(text)
    /\ UNCHANGED <<text, textPath, jsonPath, splitKey, docVars, hashVars, memVars>>

ApplyNewPathFromJQFormat ==
    /\ fn = "none"
    /\ fn' = "NewPathFromJQFormat"
    /\ textPath' = NewPathFromJQFormat(text)
    /\ UNCHANGED <<text, textNotation, jsonPath, splitKey, docVars, hashVars, memVars>>

ApplyNewPathFromJSONPathFormat ==
    /\ fn = "none"
    /\ fn' = "NewPathFromJSONPathFormat"
    /\ textPath' = NewPathFromJSONPathFormat(text)
    /\ UNCHANGED <<text, textNotation, jsonPath, splitKey, docVars, hashVars, memVars>>

\* ToJSONPath of the path that NewPathFromJSONPathFormat returned
ApplyToJSONPath ==
    /\ fn = "NewPathFromJSONPathFormat"
    /\ fn' = "ToJSONPath"
    /\ jsonPath' = ToJSONPath(textPath)
    /\ UNCHANGED <<text, textPath, textNotation, splitKey, docVars, hashVars, memVars>>

\* SplitKey of the path that a parsing function returned
ApplySplitKey ==
    /\ fn \in {"NewPathFromJQFormat", "NewPathFromJSONPathFormat"}
    /\ fn' = "SplitKey"
    /\ splitKey' = SplitKey(textPath)
    /\ UNCHANGED <<text, textPath, textNotation, jsonPath, docVars, hashVars, memVars>>

PathNext ==
    \/ ApplyGetArrayNotation
    \/ ApplyNewPathFromJQFormat
    \/ ApplyNewPathFromJSONPathFormat
    \/ ApplyToJSONPath
    \/ ApplySplitKey

PathSpec == PathInit /\ [][PathNext]_vars

---------------------------------------------------------------------------
(* Hash, applied to two documents *)

StrA == Str(<<"a">>)
StrAA == Str(<<"a", "a">>)
StrTrue == Str(<<"t", "r", "u", "e">>)
KeyAB == <<"a", "b">>

\* values of a hashed document: strings, a boolean and the string that
\* reads like it, a number, null, arrays in both orders, and objects
HashValues ==
    { StrA, StrAA, Bool(TRUE), StrTrue, Num(7), Nil,
      Arr(<<>>), Arr(<<StrA, StrAA>>), Arr(<<StrAA, StrA>>),
      EmptyMap, Map1(KeyB, StrA) }

HashKeys == {KeyA, KeyAB, KeyB}

\* the documents with at most two of the keys
HashDocs ==
    {EmptyMap}
        \cup {Map1(k, x) : k \in HashKeys, x \in HashValues}
        \cup {Map(k1 :> x1 @@ k2 :> x2) :
                  k1 \in {KeyA}, k2 \in {KeyAB, KeyB},
                  x1 \in HashValues, x2 \in HashValues}

HashInit ==
    /\ DocIdle
    /\ PathIdle
    /\ MemIdle
    /\ left \in HashDocs
    /\ right \in HashDocs
    /\ leftHash = NotHashed
    /\ rightHash = NotHashed

\* Hash of left, the keys of its maps visited in one of the orders
HashLeft ==
    /\ leftHash = NotHashed
    /\ \E order \in RangeOrders : leftHash' = Hash(left, order)
    /\ UNCHANGED <<left, right, rightHash, docVars, pathVars, memVars>>

HashRight ==
    /\ rightHash = NotHashed
    /\ \E order \in RangeOrders : rightHash' = Hash(right, order)
    /\ UNCHANGED <<left, right, leftHash, docVars, pathVars, memVars>>

HashNext == HashLeft \/ HashRight

HashSpec == HashInit /\ [][HashNext]_vars

---------------------------------------------------------------------------
(* Paths in storage                                                        *)
(*                                                                         *)
(* A Path is a Go slice: a header (backing array, length) over an array    *)
(* whose size is the capacity of the slice.  Every slice of the model      *)
(* starts at the first element of its array.  An operator that allocates   *)
(* or writes takes the memory m and returns [mem, path]: the memory after  *)
(* it and the header it returns.                                           *)
(***************************************************************************)

\* most statements a caller executes
MaxMemOps == 3

\* the nil slice
NilPath == [array |-> 0, len |-> 0]

\* cap(s)
capOf(m, s) == IF s.array = 0 THEN 0 ELSE Len(m[s.array])

\* the segments of the slice s
segmentsOf(m, s) == IF s.array = 0 THEN <<>> ELSE SubSeq(m[s.array], 1, s.len)

\* make(Path, length, capacity): a new array of empty strings
make(m, length, capacity) ==
    [mem |-> Append(m, [i \in 1..capacity |-> <<>>]),
     path |-> [array |-> Len(m) + 1, len |-> length]]

\* copy(dst, src): the first min(len(dst), len(src)) elements of src are
\* written to the array of dst
copy(m, dst, src) ==
    IF dst.len = 0 \/ src.len = 0 THEN m
    ELSE [m EXCEPT ![dst.array] =
            [i \in 1..Len(@) |->
                IF i <= dst.len /\ i <= src.len THEN m[src.array][i] ELSE @[i]]]

\* append(s, elems...): written behind s in its array when the capacity
\* allows it; otherwise a new array of twice the capacity (of the needed
\* length when that is larger) receives the segments of s and elems
append(m, s, elems) ==
    IF Len(elems) = 0 THEN [mem |-> m, path |-> s]
    ELSE IF s.len + Len(elems) <= capOf(m, s)
    THEN [mem |-> [m EXCEPT ![s.array] =
                    [i \in 1..Len(@) |->
                        IF i > s.len /\ i <= s.len + Len(elems)
                        THEN elems[i - s.len] ELSE @[i]]],
          path |-> [array |-> s.array, len |-> s.len + Len(elems)]]
    ELSE LET needed == s.len + Len(elems)
             newcap == IF needed > 2 * capOf(m, s) THEN needed
                       ELSE 2 * capOf(m, s)
             filled == segmentsOf(m, s) \o elems
         IN  [mem |-> Append(m, [i \in 1..newcap |->
                                  IF i <= needed THEN filled[i] ELSE <<>>]),
              path |-> [array |-> Len(m) + 1, len |-> needed]]

\* append(p, key...) with no allocation of its own
appendToArgument(m, p, key) == append(m, p, key)

\* NewPath(p, key...) in the memory m
NewPathIn(m, p, key) ==
    LET newPath == make(m, p.len, p.len + 1)
    IN  append(copy(newPath.mem, newPath.path, p), newPath.path, key)

\* ConcatPaths(p1, p2) in the memory m
ConcatPathsIn(m, p1, p2) ==
    LET newPath == make(m, p1.len, p1.len + p2.len)
    IN  append(copy(newPath.mem, newPath.path, p1), newPath.path,
               segmentsOf(m, p2))

\* a segment no Path starts with
KeyX == <<"x">>

\* the Path variables of the caller: two it starts with, two it assigns
Arguments == {"p1", "p2"}
Built == {"n1", "n2"}

\* the keys given to NewPath
NewKeys == {<<>>, <<KeyA>>, <<KeyB, Dash>>}

\* the arguments are slices of two arrays of their own, of any length up to
\* the capacity
MemInit ==
    /\ mem = << <<KeyA, KeyB, KeyA>>, <<KeyB, Dash>> >>
    /\ \E l1 \in 0..3, l2 \in 0..2 :
           pathOf = [p1 |-> [array |-> 1, len |-> l1],
                     p2 |-> [array |-> 2, len |-> l2],
                     n1 |-> NilPath, n2 |-> NilPath]
    /\ held = [n \in Arguments \cup Built |-> segmentsOf(mem, pathOf[n])]
    /\ memOp = [fn |-> "none"]
    /\ memOps = 0
    /\ DocIdle
    /\ PathIdle
    /\ HashIdle

MoreStatements == memOps < MaxMemOps

\* dst = r.path, the header a function returned in the memory r.mem
Assigned(dst, r) ==
    /\ mem' = r.mem
    /\ pathOf' = [pathOf EXCEPT ![dst] = r.path]
    /\ held' = [held EXCEPT ![dst] = segmentsOf(r.mem, r.path)]
    /\ memOps' = memOps + 1
    /\ UNCHANGED <<docVars, pathVars, hashVars>>

\* dst = NewPath(src, key...)
MemNewPath ==
    /\ MoreStatements
    /\ \E dst \in Built, src \in Arguments, key \in NewKeys :
        /\ Assigned(dst, NewPathIn(mem, pathOf[src], key))
        /\ memOp' = [fn |-> "NewPath", dst |-> dst, p |-> src, key |-> key]

\* dst = ConcatPaths(src1, src2)
MemConcatPaths ==
    /\ MoreStatements
    /\ \E dst \in Built, src1 \in Arguments, src2 \in Arguments :
        /\ Assigned(dst, ConcatPathsIn(mem, pathOf[src1], pathOf[src2]))
        /\ memOp' = [fn |-> "ConcatPaths", dst |-> dst, p |-> src1, key |-> src2]

\* v[i] = KeyX for a Path variable v and a 0-based i < len(v)
MemWrite ==
    /\ MoreStatements
    /\ \E v \in Arguments \cup Built :
       \E i \in 0..(pathOf[v].len - 1) :
        /\ mem' = [mem EXCEPT ![pathOf[v].array][i + 1] = KeyX]
        /\ held' = [held EXCEPT ![v][i + 1] = KeyX]
        /\ memOp' = [fn |-> "write", dst |-> v, p |-> v, key |-> i]
        /\ memOps' = memOps + 1
        /\ UNCHANGED <<pathOf, docVars, pathVars, hashVars>>

\* v = append(v, KeyX) for a Path variable v
MemAppend ==
    /\ MoreStatements
    /\ \E v \in Arguments \cup Built :
        LET r == append(mem, pathOf[v], <<KeyX>>)
        IN  /\ mem' = r.mem
            /\ pathOf' = [pathOf EXCEPT ![v] = r.path]
            /\ held' = [held EXCEPT ![v] = Append(@, KeyX)]
            /\ memOp' = [fn |-> "append", dst |-> v, p |-> v, key |-> KeyX]
            /\ memOps' = memOps + 1
            /\ UNCHANGED <<docVars, pathVars, hashVars>>

MemNext == MemNewPath \/ MemConcatPaths \/ MemWrite \/ MemAppend

MemSpec == MemInit /\ [][MemNext]_vars

---------------------------------------------------------------------------
(* FieldCleaner: the fields removed from an object, and the sub-trees that *)
(* are cleaned or removed as a whole                                       *)

\* FieldCleaner{fields, nested}: nested is a Go map from key to FieldCleaner
FieldCleaner(fields, nested) == [fields |-> fields, nested |-> nested]

KeyMetadata == <<"m", "e", "t", "a", "d", "a", "t", "a">>
KeyStatus == <<"s", "t", "a", "t", "u", "s">>
KeyLabels == <<"l", "a", "b", "e", "l", "s">>
KeyAnnotations == <<"a", "n", "n", "o", "t", "a", "t", "i", "o", "n", "s">>
KeyUid == <<"u", "i", "d">>
KeyManagedBy ==
    <<"a", "p", "p", ".", "k", "u", "b", "e", "r", "n", "e", "t", "e", "s", ".", "i", "o", "/">>
    \o <<"m", "a", "n", "a", "g", "e", "d", "-", "b", "y">>
KeyRevision ==
    <<"d", "e", "p", "l", "o", "y", "m", "e", "n", "t", ".", "k", "u", "b", "e", "r", "n", "e", "t", "e", "s", ".", "i", "o", "/">>
    \o <<"r", "e", "v", "i", "s", "i", "o", "n">>
KeyLastApplied ==
    <<"k", "u", "b", "e", "c", "t", "l", ".", "k", "u", "b", "e", "r", "n", "e", "t", "e", "s", ".", "i", "o", "/">>
    \o <<"l", "a", "s", "t", "-", "a", "p", "p", "l", "i", "e", "d", "-">>
    \o <<"c", "o", "n", "f", "i", "g", "u", "r", "a", "t", "i", "o", "n">>

\* the fields removed from metadata
MetadataFields ==
    << <<"m", "a", "n", "a", "g", "e", "d", "F", "i", "e", "l", "d", "s">>,
       <<"c", "r", "e", "a", "t", "i", "o", "n", "T", "i", "m", "e", "s", "t", "a", "m", "p">>,
       <<"g", "e", "n", "e", "r", "a", "t", "i", "o", "n">>,
       <<"r", "e", "s", "o", "u", "r", "c", "e", "V", "e", "r", "s", "i", "o", "n">>,
       KeyUid,
       <<"f", "i", "n", "a", "l", "i", "z", "e", "r", "s">> >>

\* ManagedFields (KubernetesManagedFields before its renaming)
ManagedFields ==
    FieldCleaner(<<>>,
        (KeyMetadata :>
            FieldCleaner(MetadataFields,
                (KeyLabels :> FieldCleaner(<<KeyManagedBy>>, <<>>))
                @@ (KeyAnnotations :>
                        FieldCleaner(<<KeyRevision, KeyLastApplied>>, <<>>))))
        @@ (KeyStatus :> FieldCleaner(<<>>, <<>>)))

isSingleKey(f) == Len(f.fields) = 0 /\ DOMAIN f.nested = {}

\* for _, key := range fields { delete(obj, key) }
RECURSIVE deleteFields(_, _)
deleteFields(obj, fields) ==
    IF fields = <<>> THEN obj
    ELSE deleteFields(MapDel(obj, Head(fields)), Tail(fields))

\* the panic of subTree.(map[string]interface{}) on a value that is no map
ErrInterfaceConversion(key) == Err("panic", <<key>>, "interface conversion")

\* FieldCleaner.Clean on the Go map obj: [obj, err], the map as the call
\* leaves it and the panic it ended with (NoError when it returned).  The
\* nested cleaners are visited in the order the map of them is ranged over,
\* which every range loop draws on its own: orders[1] is the order of the
\* loop of this call, the rest are the orders of the loops of the calls
\* below it (of ManagedFields one cleaner a level has nested cleaners).
\* A sub-tree is a map that is cleaned in place.
RECURSIVE Clean(_, _, _)
RECURSIVE cleanNested(_, _, _, _)
cleanedSubTree(f, keys, obj, orders, sub) ==
    IF sub.err # NoError
    THEN [obj |-> MapPut(obj, Head(keys), Map(sub.obj)), err |-> sub.err]
    ELSE cleanNested(f, Tail(keys), MapPut(obj, Head(keys), Map(sub.obj)), orders)

cleanNested(f, keys, obj, orders) ==
    IF keys = <<>> THEN [obj |-> obj, err |-> NoError]
    ELSE IF isSingleKey(f.nested[Head(keys)])
    THEN cleanNested(f, Tail(keys), MapDel(obj, Head(keys)), orders)
    ELSE IF Head(keys) \notin DOMAIN obj
    THEN cleanNested(f, Tail(keys), obj, orders)
    ELSE IF obj[Head(keys)].kind # "map"
    THEN [obj |-> obj, err |-> ErrInterfaceConversion(Head(keys))]
    ELSE cleanedSubTree(f, keys, obj, orders,
                        Clean(f.nested[Head(keys)], obj[Head(keys)].v,
                              Tail(orders)))

Clean(f, obj, orders) ==
    cleanNested(f, rangeKeys(f.nested, Head(orders)),
                deleteFields(obj, f.fields), orders)

\* the paths of the fields ManagedFields lists
ManagedPaths ==
    {<<KeyStatus>>}
    \cup {<<KeyMetadata, MetadataFields[i]>> : i \in 1..Len(MetadataFields)}
    \cup {<<KeyMetadata, KeyLabels, KeyManagedBy>>,
          <<KeyMetadata, KeyAnnotations, KeyRevision>>,
          <<KeyMetadata, KeyAnnotations, KeyLastApplied>>}

\* m, and m with k set to each value of xs
OptionalPut(m, k, xs) == {m} \cup {MapPut(m, k, x) : x \in xs}

\* values that are no objects
NotObjects == {Nil, StrS, Arr(<<>>), Arr(<<EmptyMap>>)}

LabelSections ==
    {EmptyMap, Map1(KeyManagedBy, StrS), Map1(KeyA, StrT),
     Map(MapPut(MapPut(<<>>, KeyManagedBy, StrS), KeyA, StrT))} \cup NotObjects

AnnotationSections ==
    {Map1(KeyRevision, StrS), Map(MapPut(MapPut(<<>>, KeyLastApplied, StrS), KeyB, StrT))}
    \cup NotObjects

MetadataSections ==
    {Map(m) : m \in UNION {OptionalPut(l, KeyAnnotations, AnnotationSections) :
                 l \in UNION {OptionalPut(u, KeyLabels, LabelSections) :
                    u \in UNION {OptionalPut(n, MetadataFields[2], {StrT}) :
                       n \in OptionalPut(MapPut(<<>>, KeyA, StrS), KeyUid,
                                         {StrS, Nil})}}}}
    \cup NotObjects

\* objects as a Kubernetes API returns them, and objects that hold other
\* values where those have objects
CleanDocs ==
    {Map(r) : r \in UNION {OptionalPut(m, KeyStatus, {Map1(KeyA, StrS), StrS, Nil}) :
                 m \in OptionalPut(MapPut(<<>>, KeyB, StrU), KeyMetadata,
                                   MetadataSections)}}

CleanInit ==
    /\ doc \in CleanDocs
    /\ nops = 0
    /\ op = "none"
    /\ argPath = <<>>
    /\ argValue = Nil
    /\ argAll = FALSE
    /\ argMatch = NoMatch
    /\ before = doc
    /\ retVal = Nil
    /\ retErr = NoError
    /\ retPath = <<>>
    /\ retPaths = <<>>
    /\ PathIdle
    /\ HashIdle
    /\ MemIdle

\* obj.RemoveManagedFields(): a panic is recorded as the error of the call.
\* The range loops over the cleaners of the root, of metadata and of labels
\* or annotations draw their orders independently.
CallRemoveManagedFields ==
    /\ MoreCalls
    /\ \E orders \in RangeOrders \X RangeOrders \X RangeOrders :
        LET r == Clean(ManagedFields, doc.v, orders)
        IN  Returned("RemoveManagedFields", <<>>, Nil, FALSE,
                     [obj |-> Map(r.obj), val |-> Nil, err |-> r.err])

CleanNext == CallRemoveManagedFields

CleanSpec == CleanInit /\ [][CleanNext]_vars

---------------------------------------------------------------------------
(* Vocabulary of the properties                                            *)
(*                                                                         *)
(* What the specification means by its words, stated without the code's    *)
(* classification of segments: a "-" segment is the segment "-", an index  *)
(* segment is a string of decimal digits, every other segment is an object *)
(* key.                                                                    *)
(***************************************************************************)

IsDecimal(s) == Len(s) > 0 /\ \A i \in 1..Len(s) : s[i] \in Digit

NoDashSegment(p) == \A i \in 1..Len(p) : p[i] # Dash

Min(S) == CHOOSE x \in S : \A y \in S : x <= y

\* the error of a plain walk of the path of the last call, on the document
\* as it was before the call
WalkError == Get(before, argPath).err

StructuralErrors ==
    {"ErrNotTraversable", "ErrNotAnArray", "ErrMissingArrayTraversal", "NumError"}

\* The 1-based position of the first segment of p that is missing from
\* node, pos being the position of p[1]: 0 when p resolves, -1 when a node
\* on the way cannot be entered with the segment that follows.  A "-" is
\* missing when no element of the array resolves the segments after it.
RECURSIVE FirstMissing(_, _, _)
FirstMissing(node, p, pos) ==
    IF Len(p) = 0 THEN 0
    ELSE IF node.kind = "map"
    THEN IF p[1] = Dash \/ IsDecimal(p[1]) THEN -1
         ELSE IF p[1] \in DOMAIN node.v
         THEN FirstMissing(node.v[p[1]], Tail(p), pos + 1)
         ELSE pos
    ELSE IF node.kind = "slice"
    THEN IF p[1] = Dash
         THEN IF \E j \in 1..Len(node.v) :
                    FirstMissing(node.v[j], Tail(p), pos + 1) = 0
              THEN 0 ELSE pos
         ELSE IF IsDecimal(p[1])
         THEN IF ParseInt(p[1]).ok /\ ParseInt(p[1]).n < Len(node.v)
              THEN FirstMissing(node.v[ParseInt(p[1]).n + 1], Tail(p), pos + 1)
              ELSE pos
         ELSE -1
    ELSE -1

Missing == FirstMissing(before, argPath, 1)

\* v wrapped in one single-key object per key of segs and one one-element
\* array per "-" of segs, in path order
RECURSIVE WrapSegments(_, _)
WrapSegments(segs, v) ==
    IF Len(segs) = 0 THEN v
    ELSE IF segs[1] = Dash THEN Arr(<<WrapSegments(Tail(segs), v)>>)
    ELSE Map1(segs[1], WrapSegments(Tail(segs), v))

\* p with every "-" that is not its last segment replaced by the index of
\* the first element under which the rest of p resolves; every other
\* segment stays as it is
RECURSIVE ConcretePath(_, _)
ConcretePath(node, p) ==
    IF Len(p) = 0 THEN <<>>
    ELSE IF p[1] = Dash
    THEN IF Len(p) = 1 \/ node.kind # "slice" THEN p
         ELSE IF \E i \in 1..Len(node.v) :
                    walk(node.v[i], Tail(p), NoArgs).err = NoError
         THEN <<Itoa(Min({i \in 1..Len(node.v) :
                        walk(node.v[i], Tail(p), NoArgs).err = NoError}) - 1)>>
              \o ConcretePath(
                    node.v[Min({i \in 1..Len(node.v) :
                        walk(node.v[i], Tail(p), NoArgs).err = NoError})],
                    Tail(p))
         ELSE p
    ELSE IF node.kind = "slice" /\ ParseInt(p[1]).ok
            /\ ParseInt(p[1]).n < Len(node.v)
    THEN <<p[1]>> \o ConcretePath(node.v[ParseInt(p[1]).n + 1], Tail(p))
    ELSE IF node.kind = "map" /\ p[1] \in DOMAIN node.v
    THEN <<p[1]>> \o ConcretePath(node.v[p[1]], Tail(p))
    ELSE p

\* RFC 6901: an array index is "0" or digits that do not start with "0"
IsIndexToken(s) == IsDecimal(s) /\ (Len(s) = 1 \/ s[1] # "0")

\* s with x inserted before its 0-based position i
SeqInsert(s, i, x) == SubSeq(s, 1, i) \o <<x>> \o SubSeq(s, i + 1, Len(s))

RECURSIVE JsonAdd(_, _, _), JsonAddInto(_, _, _, _)

\* node with its member or element at ptr[1] replaced by what the add gave
\* for it in r
JsonAddInto(node, ptr, value, r) ==
    IF ~r.ok THEN r
    ELSE IF node.kind = "map"
    THEN [ok |-> TRUE, doc |-> Map(MapPut(node.v, ptr[1], r.doc))]
    ELSE [ok |-> TRUE,
          doc |-> Arr([node.v EXCEPT ![ParseInt(ptr[1]).n + 1] = r.doc])]

\* RFC 6902 "add" of value at the location ptr of node: [ok, doc], ok being
\* FALSE when the operation cannot be applied.  The parent of the location
\* must exist; a member is added or replaced, an element is inserted at an
\* index up to the length of the array, "-" appends.
JsonAdd(node, ptr, value) ==
    IF Len(ptr) = 0 THEN [ok |-> TRUE, doc |-> value]
    ELSE IF node.kind = "map"
    THEN IF Len(ptr) = 1
         THEN [ok |-> TRUE, doc |-> Map(MapPut(node.v, ptr[1], value))]
         ELSE IF ptr[1] \in DOMAIN node.v
         THEN JsonAddInto(node, ptr, value,
                          JsonAdd(node.v[ptr[1]], Tail(ptr), value))
         ELSE [ok |-> FALSE, doc |-> node]
    ELSE IF node.kind = "slice"
    THEN IF Len(ptr) = 1
         THEN IF ptr[1] = Dash
              THEN [ok |-> TRUE, doc |-> Arr(Append(node.v, value))]
              ELSE IF IsIndexToken(ptr[1]) /\ ParseInt(ptr[1]).ok
                      /\ ParseInt(ptr[1]).n <= Len(node.v)
              THEN [ok |-> TRUE,
                    doc |-> Arr(SeqInsert(node.v, ParseInt(ptr[1]).n, value))]
              ELSE [ok |-> FALSE, doc |-> node]
         ELSE IF IsIndexToken(ptr[1]) /\ ParseInt(ptr[1]).ok
                 /\ ParseInt(ptr[1]).n < Len(node.v)
         THEN JsonAddInto(node, ptr, value,
                          JsonAdd(node.v[ParseInt(ptr[1]).n + 1], Tail(ptr), value))
         ELSE [ok |-> FALSE, doc |-> node]
    ELSE [ok |-> FALSE, doc |-> node]

\* p leads from node to the value v: through the member of an object, the
\* element of an array at an index, or some element of an array at a
\* segment the walk traverses
RECURSIVE ResolvesTo(_, _, _)
ResolvesTo(node, p, v) ==
    IF Len(p) = 0 THEN node = v
    ELSE IF node.kind = "map"
    THEN p[1] \in DOMAIN node.v /\ ResolvesTo(node.v[p[1]], Tail(p), v)
    ELSE IF node.kind = "slice"
    THEN IF GetArrayNotation(p[1]) = ArrayNotationTraversal
         THEN \E j \in 1..Len(node.v) : ResolvesTo(node.v[j], Tail(p), v)
         ELSE /\ ParseInt(p[1]).ok
              /\ ParseInt(p[1]).n < Len(node.v)
              /\ ResolvesTo(node.v[ParseInt(p[1]).n + 1], Tail(p), v)
    ELSE FALSE

---------------------------------------------------------------------------
(* Properties of Set, Delete and GeneratePatch *)

\* C1: for any document d, any path p with no "-" segment that addresses a
\* scalar in d, and any value v: after Set(d, p, v) returns, Get(d, p)
\* returns v.
C1_SetThenGet ==
    ( /\ op = "Set"
      /\ NoDashSegment(argPath)
      /\ Get(before, argPath).err = NoError
      /\ IsScalar(Get(before, argPath).val) )
    => Get(doc, argPath).val = argValue

\* C2: whenever walking the requested path hits a structural error
\* (NotTraversable, NotAnArray, MissingArrayTraversal and the like), Set and
\* Delete return that error: they never report success while leaving the
\* document unchanged.
C2_StructuralErrorsSurface ==
    (op \in {"Set", "Delete"} /\ WalkError.type \in StructuralErrors)
    => retErr = WalkError

\* C3 as stated: if Delete(d, p) returns without error, or p did not
\* resolve in d before the call, then Has(d, p) is false afterwards.
C3_DeleteThenHas ==
    (op = "Delete" /\ (retErr = NoError \/ ~Has(before, argPath)))
    => ~Has(doc, argPath)

\* a path that names an object key and passes no "-": it is not empty, no
\* segment begins with "-" and the last segment does not begin with a digit
KeyPath(p) ==
    /\ Len(p) > 0
    /\ \A i \in 1..Len(p) : GetArrayNotation(p[i]) # ArrayNotationTraversal
    /\ GetArrayNotation(p[Len(p)]) = ArrayNotationInvalid

\* C3, amended: for a path that is not empty, has no segment beginning with
\* "-" and whose last segment does not begin with a digit: if Delete(d, p)
\* returns without error, or p did not resolve in d before the call, then
\* Has(d, p) is false afterwards.
C3_DeleteKeyThenHas ==
    ( /\ op = "Delete"
      /\ KeyPath(argPath)
      /\ (retErr = NoError \/ ~Has(before, argPath)) )
    => ~Has(doc, argPath)

\* a Delete that removed an existing key
C3_Witness ==
    /\ op = "Delete"
    /\ KeyPath(argPath)
    /\ Len(argPath) > 1
    /\ Has(before, argPath)
    /\ retErr = NoError
    /\ doc # before

\* C4: whenever GeneratePatch(d, p, v) returns (patchPath, patchValue)
\* without error, a single RFC 6902 "add" of patchValue at patchPath is
\* applicable to d and yields a document in which p resolves to v.
C4_PatchIsApplicableAdd ==
    (op = "GeneratePatch" /\ retErr = NoError)
    => /\ JsonAdd(before, retPath, retVal).ok
       /\ ResolvesTo(JsonAdd(before, retPath, retVal).doc, argPath, argValue)

\* C5: if p fully resolves in d, GeneratePatch(d, p, v) returns v unchanged
\* and no error; the returned path is p itself when p has no "-" segment,
\* and otherwise p with every "-" that is not final replaced by the index of
\* the first element under which the rest of the path resolves, a final "-"
\* staying "-".
C5_ResolvedPathUnchanged ==
    (op = "GeneratePatch" /\ Has(before, argPath))
    => /\ retErr = NoError
       /\ retVal = argValue
       /\ retPath = ConcretePath(before, argPath)

\* C6: if p does not fully resolve in d and no segment from the first
\* unresolved one onward is an index, GeneratePatch(d, p, v) returns the
\* prefix of p up to and including the first unresolved segment, with v
\* wrapped, in path order, in one single-key object per remaining object key
\* and one single-element array per remaining "-" segment.
C6_MissingPathExtended ==
    ( /\ op = "GeneratePatch"
      /\ WalkError.type = "ErrNotFound"
      /\ Missing > 0
      /\ \A i \in Missing..Len(argPath) : ~IsDecimal(argPath[i]) )
    => /\ retErr = NoError
       /\ retPath = SubSeq(argPath, 1, Missing)
       /\ retVal = WrapSegments(SubSeq(argPath, Missing + 1, Len(argPath)),
                                argValue)

\* C7: GeneratePatch returns the IndexNotation error whenever p cannot be
\* fully resolved and the first unresolved segment of p or any segment
\* after it is an index segment.
C7_IndexNotation ==
    ( /\ op = "GeneratePatch"
      /\ WalkError.type = "ErrNotFound"
      /\ Missing > 0
      /\ \E i \in Missing..Len(argPath) : IsDecimal(argPath[i]) )
    => retErr = ErrIndexNotation

\* C8: when the underlying walk of p fails with an error other than
\* NotFound (NotTraversable, NotAnArray, MissingArrayTraversal),
\* GeneratePatch returns that same error to its caller.
C8_WalkErrorPropagated ==
    ( /\ op = "GeneratePatch"
      /\ WalkError # NoError
      /\ WalkError.type # "ErrNotFound" )
    => retErr = WalkError

\* a GeneratePatch that found a map where the path has "-" after a key and
\* a member of that map
C8_Witness ==
    /\ op = "GeneratePatch"
    /\ Len(argPath) = 3
    /\ retErr = ErrNotAnArray(argPath[1])
    /\ WalkError = retErr

---------------------------------------------------------------------------
(* Properties of Walk over an array with a "-" segment *)

\* the position of the first segment of p, from i on, that walk traverses
\* (0 when there is none)
RECURSIVE FirstTraversal(_, _)
FirstTraversal(p, i) ==
    IF i > Len(p) THEN 0
    ELSE IF GetArrayNotation(p[i]) = ArrayNotationTraversal THEN i
    ELSE FirstTraversal(p, i + 1)

DashPos == FirstTraversal(argPath, 1)

\* what the segments before the first traversed one lead to
DashNode == Get(before, SubSeq(argPath, 1, DashPos - 1))

\* the last call was a Walk that came to an array with "-" as next segment
WalkReachesDash ==
    /\ op = "Walk"
    /\ DashPos > 0
    /\ argPath[DashPos] = Dash
    /\ DashNode.err = NoError
    /\ DashNode.val.kind = "slice"

DashArray == DashNode.val.v
DashRest == SubSeq(argPath, DashPos + 1, Len(argPath))

\* the walk of the remaining path from element j of the array (1-based)
ElemWalk(j) ==
    walk(DashArray[j], DashRest,
         WalkArgs(argAll, "nil", Nil, "nil", Nil, FALSE))

Succeeding == {j \in 1..Len(DashArray) : ElemWalk(j).err = NoError}

\* the results of the elements from j on that succeed, in index order
RECURSIVE SuccessValues(_)
SuccessValues(j) ==
    IF j > Len(DashArray) THEN <<>>
    ELSE IF ElemWalk(j).err = NoError
    THEN <<ElemWalk(j).val>> \o SuccessValues(j + 1)
    ELSE SuccessValues(j + 1)

\* C9: Walk over an array with a "-" segment and matchAll=false returns the
\* result of the lowest-index element for which walking the remaining path
\* succeeds; if no element succeeds (including when the array is empty) it
\* fails with NotFound for segment "-".
C9_FirstMatch ==
    (WalkReachesDash /\ ~argAll)
    => IF Succeeding = {}
       THEN retErr = ErrNotFound(Dash)
       ELSE retErr = NoError /\ retVal = ElemWalk(Min(Succeeding)).val

\* a first match that is not the first element
C9_Witness ==
    /\ WalkReachesDash
    /\ ~argAll
    /\ Succeeding # {}
    /\ Min(Succeeding) > 1
    /\ retErr = NoError

\* C10: Walk over an array with a "-" segment and matchAll=true attempts
\* every element and ignores per-element errors: with no successful element
\* it fails with NotFound, with exactly one it returns that element's result
\* unwrapped, and with more than one it returns the list of all successful
\* results in ascending index order.
C10_MatchAll ==
    (WalkReachesDash /\ argAll)
    => IF Len(SuccessValues(1)) = 0
       THEN retErr.type = "ErrNotFound"
       ELSE IF Len(SuccessValues(1)) = 1
       THEN retErr = NoError /\ retVal = SuccessValues(1)[1]
       ELSE retErr = NoError /\ retVal = Arr(SuccessValues(1))

\* a walk of all elements in which one element failed and two succeeded
C10_Witness ==
    /\ WalkReachesDash
    /\ argAll
    /\ Len(SuccessValues(1)) = 2
    /\ Len(DashArray) = 3
    /\ retVal = Arr(SuccessValues(1))

\* Where a walk without "-" stops: the node it stands on and the segments
\* it has left.  A key of an object and an index inside an array are
\* entered, everything else stops the walk.
RECURSIVE StopPoint(_, _)
StopPoint(node, p) ==
    IF Len(p) = 0
    THEN [node |-> node, rest |-> p]
    ELSE IF /\ node.kind = "map"
            /\ p[1] # Dash
            /\ ~IsDecimal(p[1])
            /\ p[1] \in DOMAIN node.v
    THEN StopPoint(node.v[p[1]], Tail(p))
    ELSE IF /\ node.kind = "slice"
            /\ IsDecimal(p[1])
            /\ ParseInt(p[1]).ok
            /\ ParseInt(p[1]).n < Len(node.v)
    THEN StopPoint(node.v[ParseInt(p[1]).n + 1], Tail(p))
    ELSE [node |-> node, rest |-> p]

\* the stop of the walk of the last call
Stop == StopPoint(before, argPath)

\* C11: with a non-empty remaining path the error kind of Walk is
\* determined by the current node and the next segment: NotAnArray when
\* the node is an object and the next segment is array notation,
\* MissingArrayTraversal when the node is an array and the next segment is
\* neither an index nor "-", NotTraversable when the node is null or a
\* scalar.
C11_ErrorKinds ==
    (op = "Walk" /\ Len(Stop.rest) > 0)
    => /\ (Stop.node.kind = "map"
              /\ (Stop.rest[1] = Dash \/ IsDecimal(Stop.rest[1])))
          => retErr.type = "ErrNotAnArray"
       /\ (Stop.node.kind = "slice"
              /\ Stop.rest[1] # Dash /\ ~IsDecimal(Stop.rest[1]))
          => retErr.type = "ErrMissingArrayTraversal"
       /\ Stop.node.kind \notin {"map", "slice"}
          => retErr.type = "ErrNotTraversable"

\* The case of C11 in which only keys, decimal indices and "-" are walked.
C11_PlainSegments ==
    (\A i \in 1..Len(argPath) : argPath[i] \in {KeyA, KeyB, Idx0, Idx1, Dash})
    => C11_ErrorKinds

\* C12: a segment is classified Traversal iff it is exactly "-", Index iff
\* it is a non-negative decimal integer string, and not array notation
\* otherwise.
C12_Classification ==
    fn = "GetArrayNotation"
    => /\ textNotation = ArrayNotationTraversal <=> text = Dash
       /\ textNotation = ArrayNotationIndex <=> IsDecimal(text)
       /\ textNotation = ArrayNotationInvalid
              <=> (text # Dash /\ ~IsDecimal(text))

\* The case of C12 in which a segment is "-", a decimal number, or begins
\* with neither "-" nor a digit.
C12_FirstCharacterDecides ==
    (fn = "GetArrayNotation"
        /\ (text = Dash \/ IsDecimal(text) \/ Len(text) = 0
                \/ text[1] \notin Digit \cup {"-"}))
    => C12_Classification

---------------------------------------------------------------------------
(* Properties of the typed getters *)

\* the Go kind that the typed getter of the last call asks for
RequestedKind ==
    CASE op = "GetString" -> "string"
      [] op = "GetSection" -> "map"
      [] op = "GetList" -> "slice"
      [] OTHER -> "none"

\* C13: GetString, GetSection and GetList return the value when it has the
\* requested type, return the error of Get when the path does not resolve,
\* and return IncorrectType for every resolved value of any other type
\* (object, array, string, number, boolean or null).
C13_TypedGetters ==
    RequestedKind # "none"
    => IF WalkError # NoError
       THEN retErr = WalkError
       ELSE IF Get(before, argPath).val.kind = RequestedKind
       THEN retErr = NoError /\ retVal = Get(before, argPath).val
       ELSE retErr.type = "ErrIncorrectType"

\* The case of C13 in which the resolved value is not null.
C13_NotNull ==
    (RequestedKind # "none" /\ Get(before, argPath).val # Nil)
    => C13_TypedGetters

---------------------------------------------------------------------------
(* Properties of FindAll and FindFirst *)

\* The places at which the path p resolves below node, as records of the
\* concrete path (prefix, then p with each "-" replaced by an index) and
\* the value found there, in ascending index order.
RECURSIVE Resolutions(_, _, _), ElemResolutions(_, _, _, _)
Resolutions(node, p, prefix) ==
    IF Len(p) = 0
    THEN <<[p |-> prefix, v |-> node]>>
    ELSE IF /\ node.kind = "map"
            /\ p[1] # Dash
            /\ ~IsDecimal(p[1])
            /\ p[1] \in DOMAIN node.v
    THEN Resolutions(node.v[p[1]], Tail(p), Append(prefix, p[1]))
    ELSE IF /\ node.kind = "slice"
            /\ IsDecimal(p[1])
            /\ ParseInt(p[1]).ok
            /\ ParseInt(p[1]).n < Len(node.v)
    THEN Resolutions(node.v[ParseInt(p[1]).n + 1], Tail(p), Append(prefix, p[1]))
    ELSE IF node.kind = "slice" /\ p[1] = Dash
    THEN ElemResolutions(node.v, 0, Tail(p), prefix)
    ELSE <<>>

ElemResolutions(elems, i, rest, prefix) ==
    IF i >= Len(elems) THEN <<>>
    ELSE Resolutions(elems[i + 1], rest, Append(prefix, Itoa(i)))
             \o ElemResolutions(elems, i + 1, rest, prefix)

\* the concrete paths of the resolutions rs whose value is structurally
\* equal to value, every one when value is nil
RECURSIVE PathsEqualTo(_, _)
PathsEqualTo(rs, value) ==
    IF Len(rs) = 0 THEN <<>>
    ELSE IF value = Nil \/ rs[1].v = value
    THEN <<rs[1].p>> \o PathsEqualTo(Tail(rs), value)
    ELSE PathsEqualTo(Tail(rs), value)

\* what the last call looked for
MatchingPaths == PathsEqualTo(Resolutions(before, argPath, <<>>), argValue)

\* an object key that does not begin with "-" or a digit; the empty key is one
IsPlainKey(s) == Len(s) = 0 \/ (s[1] # "-" /\ s[1] \notin Digit)

\* the segments of the last call are keys that do not begin with "-" or a
\* digit, decimal indices of any size, and "-"
PlainSegments ==
    \A i \in 1..Len(argPath) :
        argPath[i] = Dash \/ IsDecimal(argPath[i]) \/ IsPlainKey(argPath[i])

\* the error a call that found nothing returns: the error of the plain walk
\* when the walk is stopped outside of any "-" traversal by a node that
\* cannot be entered (NotAnArray, MissingArrayTraversal, NotTraversable) or
\* by an index that strconv.ParseInt does not fit in 32 bits (NumError),
\* and NotFound otherwise
NothingFound ==
    IF WalkError.type \in {"ErrNotAnArray", "ErrMissingArrayTraversal",
                           "ErrNotTraversable", "NumError"}
    THEN retErr = WalkError
    ELSE retErr.type = "ErrNotFound"

\* C14: FindAll(path, value) returns exactly the concrete paths (each "-"
\* replaced by the index taken) at which path resolves to a value
\* structurally equal to value (any value when value is nil), in ascending
\* index order; FindFirst returns the first of these and fails with
\* NotFound when there is none.
C14_Find ==
    /\ op = "FindAll" => retPaths = MatchingPaths
    /\ op = "FindFirst"
       => IF Len(MatchingPaths) > 0
          THEN retErr = NoError /\ retPath = MatchingPaths[1]
          ELSE retErr.type = "ErrNotFound"

\* C14, amended: for paths of keys (not beginning with "-" or a digit),
\* decimal indices and "-", FindAll returns exactly the matching concrete
\* paths in ascending index order, without an error when there is one;
\* FindFirst returns the first of them.  When there is none, both fail with
\* the error of the plain walk of the path when that is NotAnArray,
\* MissingArrayTraversal, NotTraversable or the number error of an index
\* that does not fit in 32 bits, and with NotFound otherwise.
C14_FindPlain ==
    PlainSegments
    => /\ op = "FindAll"
          => /\ retPaths = MatchingPaths
             /\ IF Len(MatchingPaths) > 0 THEN retErr = NoError
                ELSE NothingFound
       /\ op = "FindFirst"
          => IF Len(MatchingPaths) > 0
             THEN retErr = NoError /\ retPath = MatchingPaths[1]
             ELSE NothingFound

\* FindAll with a value that only the second of two resolved places holds
C14_Witness ==
    /\ op = "FindAll"
    /\ PlainSegments
    /\ argValue # Nil
    /\ Len(Resolutions(before, argPath, <<>>)) > 1
    /\ retPaths = <<<<KeyA, Idx1>>>>

\* FindFirst on a path that stops at a scalar before its end
C14_StructuralWitness ==
    /\ op = "FindFirst"
    /\ PlainSegments
    /\ Len(MatchingPaths) = 0
    /\ retErr.type = "ErrNotTraversable"

\* FindFirst with an index that does not fit in 32 bits, on an array
C14_NumErrorWitness ==
    /\ op = "FindFirst"
    /\ argPath = <<KeyA, IdxBig>>
    /\ Len(MatchingPaths) = 0
    /\ retErr = ErrNumError(IdxBig)

\* FindAll below an empty key that the document holds
C14_EmptyKeyWitness ==
    /\ op = "FindAll"
    /\ argPath = <<KeyEmpty, KeyB>>
    /\ retErr = NoError
    /\ retPaths = <<argPath>>

---------------------------------------------------------------------------
(* Properties of annotations and labels *)

\* the key of the annotation or label of the last call
ArgKey == argPath[Len(argPath)]

\* C15: for every key k and string v, with or without an existing
\* metadata.annotations (metadata.labels) section: after SetAnnotation(k, v)
\* (SetLabel(k, v)) returned without error, GetAnnotation(k) (GetLabel(k))
\* returns v without error.
C15_SetThenGetAnnotation ==
    /\ (op = "SetAnnotation" /\ retErr = NoError)
       => /\ GetAnnotation(doc, ArgKey).err = NoError
          /\ GetAnnotation(doc, ArgKey).val = argValue
    /\ (op = "SetLabel" /\ retErr = NoError)
       => /\ GetLabel(doc, ArgKey).err = NoError
          /\ GetLabel(doc, ArgKey).val = argValue

\* The case of C15 in which the key begins with neither "-" nor a digit.
C15_KeyNotLikeArrayNotation ==
    (op \in {"SetAnnotation", "SetLabel"} /\ ArgKey[1] \in Digit \cup {"-"})
    \/ C15_SetThenGetAnnotation

---------------------------------------------------------------------------
(* Properties of Hash *)

BothHashed == leftHash # NotHashed /\ rightHash # NotHashed

\* C16: Hash depends only on the content of the document: two documents
\* holding the same keys and values hash identically, whatever the
\* insertion or iteration order of their object keys, and hashing the same
\* document again gives the same value.
C16_HashOfContent ==
    (BothHashed /\ left = right) => leftHash = rightHash

\* a document of two keys with an object below, hashed twice without error
C16_Witness ==
    /\ BothHashed
    /\ left = right
    /\ DOMAIN left.v = {KeyA, KeyAB}
    /\ left.v[KeyAB].kind = "map"
    /\ left.v[KeyAB] # EmptyMap
    /\ leftHash.err = NoError
    /\ Len(leftHash.bytes) > 3

\* how often e occurs in the sequence s
Count(s, e) == Cardinality({i \in 1..Len(s) : s[i] = e})

\* y holds the elements of x in another order
Reordered(x, y) ==
    /\ Len(x) = Len(y)
    /\ x # y
    /\ \A i \in 1..Len(x) : Count(x, x[i]) = Count(y, x[i])

IsScalarValue(x) == x.kind \in {"string", "float64", "bool"}

\* x and y differ in one way: one scalar has another value, one key of one
\* object is added or removed, or the elements of one array are reordered
RECURSIVE OneChange(_, _)
OneChange(x, y) ==
    \/ IsScalarValue(x) /\ IsScalarValue(y) /\ x # y
    \/ /\ x.kind = "map" /\ y.kind = "map"
       /\ \/ \E k \in DOMAIN y.v : k \notin DOMAIN x.v /\ x.v = MapDel(y.v, k)
          \/ \E k \in DOMAIN x.v : k \notin DOMAIN y.v /\ y.v = MapDel(x.v, k)
          \/ /\ DOMAIN x.v = DOMAIN y.v
             /\ \E k \in DOMAIN x.v :
                   /\ OneChange(x.v[k], y.v[k])
                   /\ MapDel(x.v, k) = MapDel(y.v, k)
    \/ /\ x.kind = "slice" /\ y.kind = "slice"
       /\ \/ Reordered(x.v, y.v)
          \/ /\ Len(x.v) = Len(y.v)
             /\ \E i \in 1..Len(x.v) :
                   /\ OneChange(x.v[i], y.v[i])
                   /\ SeqDel(x.v, i - 1) = SeqDel(y.v, i - 1)

\* C17: changing any scalar value, adding or removing a key, or reordering
\* array elements changes the hash: two documents that differ in one of
\* these ways never feed the same byte sequence to the hash function.
C17_ChangeChangesHash ==
    (BothHashed /\ leftHash.err = NoError /\ rightHash.err = NoError
        /\ OneChange(left, right))
    => leftHash.bytes # rightHash.bytes

\* the path of the last call does not resolve in the document it was given
Unresolved == Len(Resolutions(before, argPath, <<>>)) = 0

\* the path of the last call without its last segment
ParentPath == SubSeq(argPath, 1, Len(argPath) - 1)

\* C18: for any document d and any path p that does not resolve in d:
\* Hash(d), then Set(d, p, x), then Delete(d, p) leaves Hash(d) equal to
\* the value it had at the start.
C18_SetDeleteKeepsHash ==
    (op = "Set" /\ Unresolved)
    => \A order \in RangeOrders :
           Hash(Delete(doc, argPath).obj, order) = Hash(before, order)

\* C18, amended: when p names a key that is not empty and is missing from
\* an object which the segments before it resolve to, all of them keys or
\* decimal indices, Set(d, p, x) followed by Delete(d, p) leaves the
\* document, and with it Hash(d), as it was at the start.
C18_MissingKeyOfObject ==
    (/\ op = "Set"
     /\ Unresolved
     /\ Len(argPath) > 0
     /\ PlainSegments
     /\ NoDashSegment(argPath)
     /\ IsPlainKey(argPath[Len(argPath)])
     /\ argPath[Len(argPath)] # KeyEmpty
     /\ Len(Resolutions(before, ParentPath, <<>>)) = 1
     /\ Resolutions(before, ParentPath, <<>>)[1].v.kind = "map")
    => /\ Delete(doc, argPath).obj = before
       /\ \A order \in RangeOrders :
              Hash(Delete(doc, argPath).obj, order) = Hash(before, order)

\* a key was set below an array element and deleted again
C18_Witness ==
    /\ op = "Set"
    /\ Unresolved
    /\ Len(argPath) = 3
    /\ NoDashSegment(argPath)
    /\ PlainSegments
    /\ argPath[3] = KeyA
    /\ Len(Resolutions(before, ParentPath, <<>>)) = 1
    /\ Resolutions(before, ParentPath, <<>>)[1].v.kind = "map"
    /\ retErr = NoError
    /\ doc # before
    /\ Delete(doc, argPath).err = NoError
    /\ Hash(before, "ascending").err = NoError

\* a key was set below an empty key that the document holds
C18_BelowEmptyKeyWitness ==
    /\ op = "Set"
    /\ Unresolved
    /\ argPath = <<KeyEmpty, KeyA>>
    /\ retErr = NoError
    /\ doc # before
    /\ Delete(doc, argPath).obj = before

\* an empty last key: Set replaces the object that misses it, and Delete
\* leaves that object empty
C18_EmptyLastKeyWitness ==
    /\ op = "Set"
    /\ Unresolved
    /\ argPath = <<KeyA, KeyEmpty>>
    /\ before = Map1(KeyA, Map1(KeyB, StrS))
    /\ argValue = StrV
    /\ doc = Map1(KeyA, Map1(KeyEmpty, StrV))
    /\ Delete(doc, argPath).obj = Map1(KeyA, EmptyMap)

\* an empty first key that the root misses: GeneratePatch panics
C18_EmptyFirstKeyWitness ==
    /\ op = "Set"
    /\ argPath = <<KeyEmpty>>
    /\ KeyEmpty \notin DOMAIN before.v
    /\ retErr = ErrSliceBounds
    /\ doc = before

---------------------------------------------------------------------------
(* Properties of the text forms of Path *)

\* s is a JSON Pointer (RFC 6901) whose escapes are not ambiguous: empty or
\* a sequence of tokens that each follow a "/", every "~" being followed
\* by "0" or "1"
IsJSONPointer(s) ==
    /\ Len(s) > 0 => s[1] = "/"
    /\ \A i \in 1..Len(s) :
          s[i] = "~" => (i < Len(s) /\ s[i + 1] \in {"0", "1"})

\* C19: for every JSON-Pointer string s without ambiguous escaping,
\* ToJSONPath(NewPathFromJSONPathFormat(s)) == s, a "/" inside a segment
\* being written "~1" and a "~" being written "~0".
C19_RoundTrip ==
    (fn = "ToJSONPath" /\ IsJSONPointer(text)) => jsonPath = text

\* C19, amended: the round trip gives back every such string but the
\* empty one, which comes back as "/".
C19_RoundTripNotEmpty ==
    (fn = "ToJSONPath" /\ IsJSONPointer(text))
    => IF Len(text) = 0 THEN jsonPath = <<"/">> ELSE jsonPath = text

\* the round trip of "/~1~0": the one segment "/~"
C19_Witness ==
    /\ fn = "ToJSONPath"
    /\ text = <<"/", "~", "1", "~", "0">>
    /\ textPath = << <<"/", "~">> >>
    /\ jsonPath = text

\* the characters that are syntax in a JQ-style path
JQSyntax == {".", "[", "]", "'"}

\* the position of the last character of the name that begins at i:
\* i - 1 when there is no name
RECURSIVE NameEnd(_, _)
NameEnd(s, i) ==
    IF i > Len(s) \/ s[i] \in JQSyntax THEN i - 1 ELSE NameEnd(s, i + 1)

\* the position of the last digit of the number that begins at i
RECURSIVE DigitsEnd(_, _)
DigitsEnd(s, i) ==
    IF i > Len(s) \/ s[i] \notin Digit THEN i - 1 ELSE DigitsEnd(s, i + 1)

\* the position of the first quote at or after i, 0 without one
QuoteAt(s, i) ==
    IF \E j \in i..Len(s) : s[j] = "'"
    THEN Min({j \in i..Len(s) : s[j] = "'"})
    ELSE 0

NotJQ == [ok |-> FALSE, p |-> <<>>]

\* What a JQ-style path means, read from position i on, p being the
\* segments read before: keys separated by ".", a key being a name or a
\* quoted string (an empty one only when emptyQuoted), each key followed by
\* any number of [] and [N].  ok is FALSE for a string that is not such a
\* path.
RECURSIVE JQKey(_, _, _, _), JQAfterKey(_, _, _, _)
JQKey(s, i, p, emptyQuoted) ==
    IF i > Len(s) THEN NotJQ
    ELSE IF s[i] = "'"
    THEN IF QuoteAt(s, i + 1) = 0 THEN NotJQ
         ELSE IF QuoteAt(s, i + 1) = i + 1 /\ ~emptyQuoted THEN NotJQ
         ELSE JQAfterKey(s, QuoteAt(s, i + 1) + 1,
                         Append(p, SubSeq(s, i + 1, QuoteAt(s, i + 1) - 1)),
                         emptyQuoted)
    ELSE IF NameEnd(s, i) < i THEN NotJQ
    ELSE JQAfterKey(s, NameEnd(s, i) + 1,
                    Append(p, SubSeq(s, i, NameEnd(s, i))), emptyQuoted)

JQAfterKey(s, i, p, emptyQuoted) ==
    IF i > Len(s) THEN [ok |-> TRUE, p |-> p]
    ELSE IF s[i] = "." THEN JQKey(s, i + 1, p, emptyQuoted)
    ELSE IF s[i] = "[" /\ i < Len(s) /\ s[i + 1] = "]"
    THEN JQAfterKey(s, i + 2, Append(p, Dash), emptyQuoted)
    ELSE IF /\ s[i] = "["
            /\ DigitsEnd(s, i + 1) > i
            /\ DigitsEnd(s, i + 1) < Len(s)
            /\ s[DigitsEnd(s, i + 1) + 1] = "]"
    THEN JQAfterKey(s, DigitsEnd(s, i + 1) + 2,
                    Append(p, SubSeq(s, i + 1, DigitsEnd(s, i + 1))),
                    emptyQuoted)
    ELSE NotJQ

JQMeaning(s, emptyQuoted) ==
    IF Len(s) = 0 THEN [ok |-> TRUE, p |-> <<>>]
    ELSE JQKey(s, 1, <<>>, emptyQuoted)

\* C20: NewPathFromJQFormat splits on unquoted ".", treats an unquoted
\* name[] as name followed by "-" and name[N] as name followed by "N",
\* keeps a single-quoted key verbatim even when it contains ".", "[" or
\* "]", and returns an empty path for empty input.
C20_JQFormat ==
    (fn = "NewPathFromJQFormat" /\ JQMeaning(text, TRUE).ok)
    => textPath = JQMeaning(text, TRUE).p

\* C20, amended: the same for paths whose single-quoted keys are not
\* empty; an empty single-quoted key gives no segment.
C20_JQFormatKeysNotEmpty ==
    (fn = "NewPathFromJQFormat" /\ JQMeaning(text, FALSE).ok)
    => textPath = JQMeaning(text, FALSE).p

\* the path '.'[]: the quoted key "." and a traversal
C20_Witness ==
    /\ fn = "NewPathFromJQFormat"
    /\ text = <<"'", ".", "'", "[", "]">>
    /\ textPath = << <<".">>, Dash >>

\* the path a[1]: the name a and the index 1
C20_IndexWitness ==
    /\ fn = "NewPathFromJQFormat"
    /\ text = <<"a", "[", "1", "]">>
    /\ textPath = <<KeyA, Idx1>>

---------------------------------------------------------------------------
(* C21: a Path returned by NewPath or ConcatPaths shares no storage with   *)
(* its arguments.  Every Path variable of the caller holds the segments it *)
(* had when it was last assigned or written through: a write to a segment  *)
(* of an argument never shows in a returned Path, and a write or an append *)
(* to a returned Path never shows in an argument or in another returned    *)
(* Path; and no returned Path lives in the array of another variable.      *)
C21_NoSharedStorage ==
    /\ \A v \in DOMAIN pathOf : segmentsOf(mem, pathOf[v]) = held[v]
    /\ \A n \in DOMAIN pathOf : \A v \in DOMAIN pathOf :
           (n \in Built /\ v # n /\ pathOf[n].array # 0)
               => pathOf[n].array # pathOf[v].array

\* n1 was built from p1, which had spare capacity, and p1 was then written
\* through: n1 still starts with the segment p1 had
C21_Witness ==
    /\ memOp = [fn |-> "write", dst |-> "p1", p |-> "p1", key |-> 0]
    /\ pathOf["p1"].len = 2
    /\ held["p1"] = <<KeyX, KeyB>>
    /\ held["n1"] = <<KeyA, KeyB, KeyA>>
    /\ held["n2"] = <<KeyA, KeyB, KeyB, Dash>>

---------------------------------------------------------------------------
(* C22: for every object, whatever values it holds, Clean of the managed   *)
(* fields returns, and afterwards none of the fields the cleaner lists is  *)
(* present in the object.                                                  *)
C22_CleanRemovesFields ==
    op = "RemoveManagedFields"
        => /\ retErr = NoError
           /\ \A p \in ManagedPaths : ~Has(doc, p)

\* the same for objects whose metadata, labels and annotations are objects
\* where they are present
C22_SectionsAreObjects ==
    (op = "RemoveManagedFields"
     /\ \A p \in {<<KeyMetadata>>, <<KeyMetadata, KeyLabels>>,
                  <<KeyMetadata, KeyAnnotations>>} :
            Has(before, p) => Get(before, p).val.kind = "map")
        => /\ retErr = NoError
           /\ \A p \in ManagedPaths : ~Has(doc, p)
           /\ \A p \in Paths \cup {<<KeyMetadata, KeyLabels, KeyA>>} :
                  (p \notin ManagedPaths /\ Len(p) > 0 /\ p[1] # KeyStatus)
                      => /\ Get(doc, p).val = Get(before, p).val
                         /\ Get(doc, p).err = Get(before, p).err

---------------------------------------------------------------------------
\* the last call was a Walk with a MutateFunc and a MatchFunc whose path
\* has no traversal segment, so that it has one target, and resolved in
\* the document
MatchAndMutateAtTarget ==
    /\ op = "WalkMutate"
    /\ argMatch.fn = "equal"
    /\ \A i \in 1..Len(argPath) :
           GetArrayNotation(argPath[i]) # ArrayNotationTraversal
    /\ Get(before, argPath).err = NoError

\* the same Walk without the MatchFunc
MutateOnly ==
    Walk(before, argPath, WalkArgs(argAll, "nil", Nil, "set", argValue, FALSE))

(* C23: at the target of a Walk that has both a mutate function and a      *)
(* match predicate, the mutate function is applied first and the predicate *)
(* is evaluated against the mutated value: the walk fails with NotFound    *)
(* exactly when the predicate rejects the value the mutate function        *)
(* returned.                                                               *)
C23_MutateThenMatch ==
    MatchAndMutateAtTarget
        => IF argValue = argMatch.v
           THEN retErr = NoError
           ELSE retErr = ErrNotFound(<<>>)

(* C23, amended: the predicate is evaluated first, against the value as it *)
(* is before the mutation; when it rejects that value the walk fails with  *)
(* NotFound and the mutate function is not applied, otherwise the mutate   *)
(* function is applied as in a Walk without a predicate.                   *)
C23_MatchThenMutate ==
    MatchAndMutateAtTarget
        => IF Get(before, argPath).val = argMatch.v
           THEN /\ retErr = NoError
                /\ retVal = argValue
                /\ doc = MutateOnly.obj
           ELSE /\ retErr = ErrNotFound(<<>>)
                /\ doc = before

\* the predicate accepted the value that was there and rejects the one the
\* mutate function stored
C23_Witness ==
    /\ MatchAndMutateAtTarget
    /\ argPath = <<KeyA, KeyB>>
    /\ Get(before, argPath).val = StrS
    /\ argMatch.v = StrS
    /\ argValue = StrV
    /\ Get(doc, argPath).val = StrV
    /\ retErr = NoError

\* the predicate rejected the value that was there and would have accepted
\* the one the mutate function returns
C23_RejectedWitness ==
    /\ MatchAndMutateAtTarget
    /\ Get(before, argPath).val = StrS
    /\ argMatch.v = StrT
    /\ retErr = ErrNotFound(<<>>)
    /\ doc = before

---------------------------------------------------------------------------
\* the last call was given a path whose last segment is "-" and whose
\* prefix resolved to an array
AppendToArray ==
    /\ Len(argPath) > 0
    /\ argPath[Len(argPath)] = Dash
    /\ Get(before, ParentPath).err = NoError
    /\ Get(before, ParentPath).val.kind = "slice"

(* C24: for a path p whose last segment is "-" and whose prefix resolves   *)
(* to an existing array of length n (n >= 0), Set(d, p, v) returns no      *)
(* error and afterwards that array has length n+1, its first n elements    *)
(* are unchanged and its last element is v, as seen through the document.  *)
C24_SetAppends ==
    (op = "Set" /\ AppendToArray)
        => /\ retErr = NoError
           /\ Get(doc, ParentPath).err = NoError
           /\ Get(doc, ParentPath).val
                  = Arr(Append(Get(before, ParentPath).val.v, argValue))

\* the same for a value that is not nil, an array that is not empty and a
\* prefix of object keys and indexes
C24_SetAppendsToElements ==
    (/\ op = "Set" /\ AppendToArray
     /\ argValue # Nil
     /\ Len(Get(before, ParentPath).val.v) > 0
     /\ \A i \in 1..Len(ParentPath) : ParentPath[i] \in {KeyA, KeyB, Idx0, Idx1})
        => /\ retErr = NoError
           /\ Get(doc, ParentPath).val
                  = Arr(Append(Get(before, ParentPath).val.v, argValue))

---------------------------------------------------------------------------
\* the index the last segment of the path of the last call stands for
LastIndex == DecValue(argPath[Len(argPath)])

\* the last call was given a path whose last segment is an index in range
\* of the array its prefix resolved to; no array has an index of ten digits
IndexInRange ==
    /\ Len(argPath) > 0
    /\ IsDecimal(argPath[Len(argPath)])
    /\ Len(argPath[Len(argPath)]) < Len(IdxBig)
    /\ Get(before, ParentPath).err = NoError
    /\ Get(before, ParentPath).val.kind = "slice"
    /\ LastIndex < Len(Get(before, ParentPath).val.v)

(* C25: Delete(d, p) with p ending in an index i that is in range of an    *)
(* array of length n removes exactly element i: afterwards the array has   *)
(* length n-1, the elements before i are unchanged and every later element *)
(* has moved down by one position, also when the array is itself an        *)
(* element of another array.                                               *)
C25_DeleteRemovesElement ==
    (op = "Delete" /\ IndexInRange)
        => /\ retErr = NoError
           /\ Get(doc, ParentPath).err = NoError
           /\ Get(doc, ParentPath).val.kind = "slice"
           /\ LET old == Get(before, ParentPath).val.v
                  new == Get(doc, ParentPath).val.v
              IN  /\ Len(new) = Len(old) - 1
                  /\ \A j \in 1..Len(new) :
                         new[j] = IF j <= LastIndex THEN old[j] ELSE old[j + 1]

\* the second element of the array that is the second element of a was
\* deleted
C25_Witness ==
    /\ op = "Delete"
    /\ IndexInRange
    /\ argPath = <<KeyA, Idx1, Idx1>>
    /\ before = Map1(KeyA, Arr(<<Arr(<<>>), Arr(<<StrS, StrT>>)>>))
    /\ doc = Map1(KeyA, Arr(<<Arr(<<>>), Arr(<<StrS>>)>>))

\* the first of two elements was deleted and the second moved down
C25_MovedDownWitness ==
    /\ op = "Delete"
    /\ IndexInRange
    /\ argPath = <<KeyA, Idx0>>
    /\ before = Map1(KeyA, Arr(<<StrS, StrT>>))
    /\ doc = Map1(KeyA, Arr(<<StrT>>))

---------------------------------------------------------------------------
\* whether the MatchFunc of the last call accepts x (no MatchFunc accepts
\* every value)
Matched(x) == argMatch.fn = "nil" \/ x = argMatch.v

\* the elements of old the MatchFunc of the last call does not accept
RECURSIVE NotMatched(_)
NotMatched(old) ==
    IF Len(old) = 0 THEN <<>>
    ELSE IF Matched(old[1]) THEN NotMatched(Tail(old))
    ELSE <<old[1]>> \o NotMatched(Tail(old))

\* old with every matched element overwritten by the result of the mutate
\* function of the last call, or removed when that result is absent
FanOut(old) ==
    IF argValue = Nil THEN NotMatched(old)
    ELSE [j \in 1..Len(old) |-> IF Matched(old[j]) THEN argValue ELSE old[j]]

\* the last call was a mutating Walk under matchAll through a final "-"
\* whose prefix, of object keys and indexes, resolved to an array
FanOutWrite ==
    /\ op = "WalkMutate"
    /\ argAll
    /\ AppendToArray
    /\ \A i \in 1..Len(ParentPath) : ParentPath[i] \in {KeyA, KeyB, Idx0, Idx1}

(* C26: when Walk mutates under matchAll=true through a final "-" segment, *)
(* the write is applied to each matched element in place (the element is   *)
(* overwritten by the mutate result, or removed when the result is         *)
(* absent); the append flag is not used, so the array never grows.         *)
C26_FanOutInPlace ==
    FanOutWrite
        => /\ Get(doc, ParentPath).err = NoError
           /\ Get(doc, ParentPath).val.kind = "slice"
           /\ Len(Get(doc, ParentPath).val.v) <= Len(Get(before, ParentPath).val.v)
           /\ Get(doc, ParentPath).val.v = FanOut(Get(before, ParentPath).val.v)

\* what the fan-out does: a mutate result that is present is appended once
\* when an element matched and no element is overwritten
C26_AppendedOnce ==
    (FanOutWrite /\ argValue # Nil)
        => Get(doc, ParentPath).val.v
             = IF \E j \in 1..Len(Get(before, ParentPath).val.v) :
                      Matched(Get(before, ParentPath).val.v[j])
               THEN Append(Get(before, ParentPath).val.v, argValue)
               ELSE Get(before, ParentPath).val.v

---------------------------------------------------------------------------
\* array notation: the segment "-" and the decimal indexes
IsNotation(segment) == segment = Dash \/ IsDecimal(segment)

\* the 1-based positions of the segments of p that are not array notation
KeyPositions(p) == {i \in 1..Len(p) : ~IsNotation(p[i])}

Max(S) == CHOOSE x \in S : \A y \in S : x >= y

(* C27: for every path p, SplitKey returns (prefix, key) where key is the  *)
(* last segment of p that is not array notation and prefix is everything   *)
(* before that key, so trailing index and "-" segments are dropped; the    *)
(* empty path gives the empty prefix and the empty key.                    *)
C27_SplitKey ==
    fn = "SplitKey"
        => /\ splitKey.err = NoError
           /\ Len(textPath) = 0
                => splitKey.prefix = <<>> /\ splitKey.key = <<>>
           /\ KeyPositions(textPath) # {}
                => /\ splitKey.key = textPath[Max(KeyPositions(textPath))]
                   /\ splitKey.prefix
                        = SubSeq(textPath, 1, Max(KeyPositions(textPath)) - 1)

\* what SplitKey does: it goes back from the last segment while the
\* segment begins with "-" or a digit and is not the first one, and panics
\* at an empty segment that is not the first one
SplitKeyStops(p, i) ==
    i = 1 \/ (Len(p[i]) > 0 /\ GetArrayNotation(p[i]) = ArrayNotationInvalid)

C27_SplitKeyByFirstCharacter ==
    (fn = "SplitKey" /\ Len(textPath) > 0)
        => LET stop == Max({i \in 1..Len(textPath) : SplitKeyStops(textPath, i)})
           IN  IF \E i \in (stop + 1)..Len(textPath) : Len(textPath[i]) = 0
               THEN splitKey.err = ErrIndexOutOfRange
               ELSE /\ splitKey.err = NoError
                    /\ splitKey.key = textPath[stop]
                    /\ splitKey.prefix = SubSeq(textPath, 1, stop - 1)

---------------------------------------------------------------------------
\* the calls that read
ReadCalls ==
    {"Get", "Has", "GetString", "GetSection", "GetList", "FindAll",
     "FindFirst", "GeneratePatch", "Hash"}

\* walkedPath in the memory m after push has been called with every
\* segment of keys, from the walkedPath walked on: [mem, path]
RECURSIVE walkedPathIn(_, _, _)
walkedPathIn(m, walked, keys) ==
    IF Len(keys) = 0 THEN [mem |-> m, path |-> walked]
    ELSE walkedPathIn(NewPathIn(m, walked, <<Head(keys)>>).mem,
                      NewPathIn(m, walked, <<Head(keys)>>).path,
                      Tail(keys))

\* The segments of the path given to GeneratePatch, which is the array of
\* its own that the memory starts with, after the walk of GeneratePatch has
\* matched at a walkedPath of the segments walked and the MatchFunc has
\* written "-" over the last segment of that walkedPath.
PathAfterMatch(given, walked) ==
    LET w == walkedPathIn(<<given>>, NilPath, walked)
    IN  segmentsOf(IF /\ Len(walked) > 0
                      /\ GetArrayNotation(given[Len(given)]) = ArrayNotationTraversal
                   THEN [w.mem EXCEPT ![w.path.array][w.path.len] = Dash]
                   ELSE w.mem,
                   [array |-> 1, len |-> Len(given)])

(* C28: Get, Has, GetString/GetSection/GetList, FindAll, FindFirst,        *)
(* GeneratePatch and Hash never change the document or the path they are   *)
(* given, for any document and path and whether they succeed or fail.  The *)
(* one write these calls make through a Path, the "-" that GeneratePatch   *)
(* stores in the path it matched at, lands in storage of the walk.         *)
C28_ReadsChangeNothing ==
    op \in ReadCalls
        => /\ doc = before
           /\ (op = "GeneratePatch" /\ Len(argPath) > 0 /\ retErr = NoError)
                  => PathAfterMatch(argPath, retPath) = argPath

\* a Get that failed below an element of an array, a FindAll that matched
\* and a GeneratePatch that wrote "-" into the path it returned
C28_Witness ==
    /\ op = "Get"
    /\ before = Map1(KeyA, Arr(<<StrS, StrT>>))
    /\ argPath = <<KeyA, Idx1, KeyB>>
    /\ retErr # NoError

C28_MatchedWitness ==
    /\ op = "GeneratePatch"
    /\ before = Map1(KeyA, Arr(<<StrS, StrT>>))
    /\ argPath = <<KeyA, Dash>>
    /\ retPath = <<KeyA, Dash>>
    /\ retErr = NoError

---------------------------------------------------------------------------
(* C29: whenever Set (also as SetName, SetNamespace, SetAnnotation or      *)
(* SetLabel), Delete or a mutating Walk returns an error, the document is  *)
(* exactly as it was before the call.                                      *)
C29_ErrorChangesNothing ==
    (/\ op \in {"Set", "SetName", "SetNamespace", "SetAnnotation", "SetLabel",
                "Delete", "WalkMutate"}
     /\ retErr # NoError)
        => doc = before
\* a mutating Walk under matchAll that found no element to change
C29_Witness ==
    /\ op = "WalkMutate"
    /\ argAll
    /\ argValue = StrV
    /\ before = Map1(KeyA, Arr(<<StrS, StrT>>))
    /\ argPath = <<KeyA, Dash, KeyB>>
    /\ retErr = ErrNotFound(Dash)

\* a Delete that failed below the second element of an array
C29_DeleteWitness ==
    /\ op = "Delete"
    /\ before = Map1(KeyA, Arr(<<Map1(KeyB, StrS), StrT, Map2(StrT, StrU)>>))
    /\ argPath = <<KeyA, Idx1, KeyB>>
    /\ retErr # NoError

---------------------------------------------------------------------------
\* whether the value x is null or holds a null
RECURSIVE HoldsNull(_)
HoldsNull(x) ==
    CASE x.kind = "nil" -> TRUE
      [] x.kind = "map" -> \E k \in DOMAIN x.v : HoldsNull(x.v[k])
      [] x.kind = "slice" -> \E i \in 1..Len(x.v) : HoldsNull(x.v[i])
      [] OTHER -> FALSE

(* C30: Hash returns without error for every document built only from     *)
(* objects, arrays, strings, numbers, booleans and null (every document    *)
(* that is hashed here is one), and returns UnsupportedHashType only for a *)
(* value outside this data model.                                          *)
C30_HashOfDataModel ==
    /\ leftHash # NotHashed => leftHash.err = NoError
    /\ rightHash # NotHashed => rightHash.err = NoError

\* what Hash does: it fails exactly for the documents that hold a null
C30_HashFailsOnNull ==
    /\ leftHash # NotHashed => (leftHash.err = NoError <=> ~HoldsNull(left))
    /\ rightHash # NotHashed => (rightHash.err = NoError <=> ~HoldsNull(right))


===========================================================================
